---------------------------- MODULE Spec2Model ----------------------------
(***************************************************************************)
(* A model of kubectl-smart: the scoring engine (scoring/engine.py), the   *)
(* Issue value (models.py), the diag orchestrator (cli/commands.py) and    *)
(* the collectors (collectors/base.py).                                    *)
(*                                                                         *)
(* Scores are floats in the program.  The model keeps them as integers in  *)
(* units of 1/Scale of a point, which represents every product of the      *)
(* default weights exactly (all multipliers have one decimal digit).       *)
(* Times are whole hours for scoring and half seconds for the collectors.  *)
(***************************************************************************)
EXTENDS Integers, Sequences, FiniteSets, TLC

VARIABLES
    \* ---- scoring pipeline (ScoringEngine.analyze_issues and its callers)
    resources,   \* the records handed to analyze_issues, in supply order
    events,      \* the event records handed to analyze_issues, in order
    edges,       \* the dependency graph: a set of <<src, dst, label>>
    pc,          \* position of the pipeline
    issues,      \* the issue list assembled and ordered by analyze_issues
    scope,       \* the uid whose issues are selected ("" = all of them)
    root,        \* result of get_root_cause: a sequence of 0 or 1 issue
    factors,     \* result of get_contributing_factors
    diag,        \* result of DiagCommand.execute
    \* ---- Issue values (models.Issue, ScoringEngine.score_issue)
    made,        \* the Issue values constructed so far
    evals,       \* the evaluations of score_issue performed so far
    \* ---- collectors (Collector._run_kubectl, collect, _collect_data)
    coll,        \* one record per collector task of the command
    cmd,         \* the command's collection phase
    \* ---- resilience (CircuitBreaker, RateLimiter, with_resilience)
    cb,          \* the circuit breaker's fields
    rl,          \* the rate limiter's deque of call times
    clock,       \* time.time(), in ticks
    wr,          \* one record per coroutine inside with_resilience / acquire
    obs,         \* what was observed of the operations performed so far
    \* ---- graph (GraphBuilder.add_resources, to_ascii)
    gb,          \* the graph builder: input, vertices, records, edges
    tree,        \* the last ASCII tree rendered
    \* ---- forecasting (ForecastingEngine and its cache file)
    fs,          \* the cache directory: inodes, and what the two paths name
    runs,        \* one record per invocation inside the cache append
    hour,        \* datetime.now(timezone.utc), in hours
    predictions, \* the last result of predict_capacity_issues
    \* ---- the command line, the parsers, the top command, batch diagnosis
    validation,  \* the argument under validation and what became of it
    parser,      \* the blob fed to the resource parser and its records
    topcmd,      \* TopCommand.execute: its tasks, its steps, its result
    retry,       \* RetryStrategy.execute: invocations, sleeps, outcome
    batch        \* BatchAnalyzer.diagnose_all_pods: pods, tasks, summary

vars == <<resources, events, edges, pc, issues, scope, root, factors, diag,
          made, evals, coll, cmd, cb, rl, clock, wr, obs, gb, tree,
          fs, runs, hour, predictions,
          validation, parser, topcmd, retry, batch>>

scoreVars == <<resources, events, edges, pc, issues, scope, root, factors, diag>>
issueVars == <<made, evals>>
collVars  == <<coll, cmd>>
resVars   == <<cb, rl, clock, wr, obs>>
graphVars == <<gb, tree>>
fcVars    == <<fs, runs, hour, predictions>>
lateVars  == <<validation, parser, topcmd, retry, batch>>
otherVars == <<resVars, graphVars, fcVars, lateVars>>
notResVars   == <<scoreVars, issueVars, collVars, graphVars, fcVars, lateVars>>
notGraphVars == <<scoreVars, issueVars, collVars, resVars, fcVars, lateVars>>
notFcVars    == <<scoreVars, issueVars, collVars, resVars, graphVars, lateVars>>
notLateVars  == <<scoreVars, issueVars, collVars, resVars, graphVars, fcVars>>

-----------------------------------------------------------------------------
(* Bounds *)

MaxEvents == 2          \* events handed to analyze_issues
MaxMade   == 2          \* Issue values constructed in one behaviour
MaxEvals  == 2          \* evaluations of score_issue in one behaviour
MaxNodes  == 2          \* nodes listed by the kubelet collector

-----------------------------------------------------------------------------
(* Numbers *)

Scale == 10000                      \* model units per score point
Pts(n) == n * Scale

Min(a, b) == IF a < b THEN a ELSE b
Max(a, b) == IF a > b THEN a ELSE b

\* max(0.0, min(100.0, score))
Clamp(x) == Max(0, Min(Pts(100), x))

NoTimestamp == -1                   \* timestamp is None
NoValue == ""                       \* a missing/None string

-----------------------------------------------------------------------------
(* models.py: IssueSeverity and Issue *)

CRITICAL == "critical"
WARNING  == "warning"
INFO     == "info"
IssueSeverity == {CRITICAL, WARNING, INFO}

\* Python's order on the enum values, which are strings:
\* "critical" < "info" < "warning".
StrOrd(sev) == CASE sev = CRITICAL -> 0
                 [] sev = INFO     -> 1
                 [] sev = WARNING  -> 2

\* The thresholds used wherever the engine assigns a severity.
SeverityOfScore(score) ==
    IF score >= Pts(90) THEN CRITICAL
    ELSE IF score >= Pts(50) THEN WARNING
    ELSE INFO

\* Issue.validate_severity (pre=True): a str value -- and every member of the
\* str-Enum IssueSeverity is a str -- is returned as IssueSeverity(v); only a
\* non-str value falls through to the thresholds, and then `values` holds the
\* fields declared before `severity`, which do not include `score`, so
\* values.get('score', 0) is 0.
validate_severity(v, isStr, score) ==
    IF isStr THEN v ELSE SeverityOfScore(0)

\* Issue(...): the constructor, fields as the engine uses them.  A severity of
\* NoValue stands for a value that is not a str (None).
Issue(uid, reason, score, severity, cp, ts, origin) ==
    [uid |-> uid, reason |-> reason, score |-> score,
     severity |-> validate_severity(severity, severity # NoValue, score),
     critical_path |-> cp, ts |-> ts, origin |-> origin]

-----------------------------------------------------------------------------
(* models.py: ResourceKind and ResourceRecord *)

\* The values of the ResourceKind members (models.py).  There is no member
\* for log analysis records.
ResourceKind ==
    {"Pod", "Deployment", "ReplicaSet", "StatefulSet", "DaemonSet", "Job",
     "CronJob", "Service", "Ingress", "ConfigMap", "Secret",
     "PersistentVolumeClaim", "PersistentVolume", "StorageClass", "Node",
     "Namespace", "ServiceAccount", "Role", "RoleBinding", "ClusterRole",
     "ClusterRoleBinding", "NetworkPolicy", "HorizontalPodAutoscaler",
     "VerticalPodAutoscaler", "Endpoints", "Event"}

\* The value that engine.py and parsers/base.py look up as
\* ResourceKind.LOGANALYSIS.
LOGANALYSIS == "LogAnalysis"

\* Evaluating ResourceKind.<member> raises AttributeError for a name the
\* enumeration does not define.
EnumLookupRaises(value) == value \notin ResourceKind

Record(uid, kind, name, ns, status) ==
    [uid |-> uid, kind |-> kind, name |-> name, namespace |-> ns,
     status |-> status]

\* An event record as EventParser builds it: kind Event, the event's reason,
\* type and involvedObject in properties, creation_timestamp = firstTimestamp.
\* The message is carried as its literal text; the keyword table below says
\* which keyword groups the text matches.
EventRecord(uid, reason, message, type, inv, ts) ==
    [uid |-> uid, kind |-> "Event", name |-> uid, namespace |-> "default",
     status |-> type, reason |-> reason, message |-> message, type |-> type,
     involvedObject |-> inv, ts |-> ts]

Involved(uid, name, kind, ns) ==
    [uid |-> uid, name |-> name, kind |-> kind, namespace |-> ns]

-----------------------------------------------------------------------------
(* scoring/engine.py: the default weights *)

base_scores(reason) ==
    CASE reason = "Failed"            -> 50
      [] reason = "FailedMount"       -> 80
      [] reason = "FailedScheduling"  -> 85
      [] reason = "ImagePullBackOff"  -> 75
      [] reason = "ErrImagePull"      -> 75
      [] reason = "Unhealthy"         -> 70
      [] reason = "NetworkNotReady"   -> 60
      [] reason = "BackOff"           -> 30
      [] reason = "Pulling"           -> 10
      [] reason = "Created"           -> 5
      [] reason = "Started"           -> 5
      [] reason = "Killing"           -> 40
      [] reason = "Preempting"        -> 45
      [] OTHER                        -> 20     \* .get(reason, 20.0)

status_scores(status) ==
    CASE status = "Failed"      -> 90
      [] status = "Pending"     -> 40
      [] status = "Unknown"     -> 70
      [] status = "NotReady"    -> 80
      [] status = "Unavailable" -> 75
      [] OTHER                  -> 0      \* healthy or unlisted: .get(key, 0.0)

\* multipliers.resource_type, in tenths
resource_type_x10(kind) ==
    CASE kind = "Node"                  -> 20
      [] kind = "PersistentVolume"      -> 18
      [] kind = "PersistentVolumeClaim" -> 16
      [] kind = "Pod"                   -> 12
      [] kind = "Deployment"            -> 14
      [] kind = "StatefulSet"           -> 15
      [] kind = "DaemonSet"             -> 14
      [] kind = "Service"               -> 13
      [] kind = "ConfigMap"             -> 11
      [] kind = "Secret"                -> 12
      [] OTHER                          -> 10

\* multipliers.event_type, in tenths
event_type_x10(type) ==
    CASE type = "Warning" -> 20
      [] type = "Normal"  -> 10
      [] OTHER            -> 10

critical_path_x10 == 15

\* keywords: the bonus of each group
KeywordGroups == {"critical", "warning", "resource_specific"}
keyword_score(group) ==
    CASE group = "critical"          -> 15
      [] group = "warning"           -> 8
      [] group = "resource_specific" -> 12

\* The messages of the model and, for each, the keyword groups one of whose
\* patterns is a substring of the lowercased message.
Messages ==
    {"MountVolume.SetUp failed for volume data",
     "Back-off restarting failed container",
     "Pulling image nginx:1.25",
     "0/3 nodes are available: insufficient cpu",
     "Readiness probe slow: rate limited",
     ""}
KeywordHits(message) ==
    CASE message = "MountVolume.SetUp failed for volume data"  -> {"critical"}
      [] message = "Back-off restarting failed container"      -> {"critical"}
      [] message = "0/3 nodes are available: insufficient cpu" -> {"resource_specific"}
      [] message = "Readiness probe slow: rate limited"        -> {"warning", "resource_specific"}
      [] OTHER                                                 -> {}

\* The keyword loop of score_issue: each group counts once.
KeywordBonus(message) ==
    LET hit(group) == IF group \in KeywordHits(message)
                      THEN keyword_score(group) ELSE 0
    IN  hit("critical") + hit("warning") + hit("resource_specific")

-----------------------------------------------------------------------------
(* scoring/engine.py: scoring *)

\* _get_age_multiplier, in tenths: the age is measured against the wall
\* clock at the moment of the call (datetime.now), here the argument `now`.
_get_age_multiplier(timestamp, now) ==
    IF timestamp = NoTimestamp THEN 10
    ELSE LET age_hours == now - timestamp IN
         IF age_hours < 1 THEN 10
         ELSE IF age_hours < 6 THEN 9
         ELSE IF age_hours < 24 THEN 7
         ELSE IF age_hours < 168 THEN 5
         ELSE 3

\* score_issue(issue), evaluated at wall-clock time `now`.
score_issue(reason, message, critical_path, timestamp, now) ==
    LET s0 == base_scores(reason) + KeywordBonus(message)
        cp == IF critical_path THEN critical_path_x10 ELSE 10
        ag == IF timestamp # NoTimestamp
              THEN _get_age_multiplier(timestamp, now) ELSE 10
    IN  Clamp(s0 * cp * ag * (Scale \div 100))

\* score_resource_status(resource), in points
score_resource_status(resource) ==
    IF resource.status = NoValue THEN 0 ELSE status_scores(resource.status)

\* create_issue_from_event
create_issue_from_event(event, target, is_critical_path, now) ==
    LET base  == score_issue(event.reason, event.message, is_critical_path,
                             event.ts, now)
        final == Clamp((base * resource_type_x10(target.kind)
                             * event_type_x10(event.type)) \div 100)
        built == Issue(target.uid, event.reason, 0, INFO, is_critical_path,
                       event.ts, "event")
    IN  [built EXCEPT !.score = final, !.severity = SeverityOfScore(final)]

\* f"Status{resource.status}"
StatusReason(status) ==
    CASE status = "Failed"      -> "StatusFailed"
      [] status = "Pending"     -> "StatusPending"
      [] status = "Unknown"     -> "StatusUnknown"
      [] status = "NotReady"    -> "StatusNotReady"
      [] status = "Unavailable" -> "StatusUnavailable"
      [] OTHER                  -> "StatusOther"

\* create_issue_from_resource_status: a sequence of 0 or 1 issue
create_issue_from_resource_status(resource, is_critical_path) ==
    LET status_score == Pts(score_resource_status(resource)) IN
    IF status_score < Pts(30) THEN <<>>
    ELSE LET built == Issue(resource.uid, StatusReason(resource.status),
                            status_score, INFO, is_critical_path,
                            NoTimestamp, "status")
         IN  <<[built EXCEPT !.severity = SeverityOfScore(status_score)]>>

\* create_issue_from_logs: a sequence of 0 or 1 issue; the timestamp is the
\* wall clock at the call.
create_issue_from_logs(hasErrors, target, now) ==
    IF ~hasErrors THEN <<>>
    ELSE <<Issue(target.uid, "LogFailure", Pts(85), WARNING, TRUE, now, "log")>>

-----------------------------------------------------------------------------
(* graph/builder.py: neighbour lookup *)

\* Graph.predecessors / Graph.successors of the vertex of a uid
predecessors(g, uid) == {e[1] : e \in {x \in g : x[2] = uid}}
successors(g, uid)   == {e[2] : e \in {x \in g : x[1] = uid}}

\* GraphBuilder.get_dependencies: "upstream" reads the predecessors, any
\* other direction the successors.
get_dependencies(g, uid, direction) ==
    IF direction = "upstream" THEN predecessors(g, uid) ELSE successors(g, uid)

-----------------------------------------------------------------------------
(* scoring/engine.py: analyze_issues *)

RECURSIVE Flatten(_)
Flatten(ss) == IF ss = <<>> THEN <<>> ELSE Head(ss) \o Flatten(Tail(ss))

Indices(seq) == 1..Len(seq)

\* resource_map = {r.uid: r for r in resources}: the last record of a uid wins
InResourceMap(rs, uid) == \E i \in Indices(rs) : rs[i].uid = uid
ResourceMapGet(rs, uid) ==
    rs[CHOOSE i \in Indices(rs) :
          rs[i].uid = uid /\ \A j \in Indices(rs) : rs[j].uid = uid => j <= i]

\* The lookup with its two steps swapped: by (name, kind, namespace) first.
FindTarget_by_name(event, rs) ==
    LET inv    == event.involvedObject
        inv_ns == IF inv.namespace = NoValue THEN event.namespace
                  ELSE inv.namespace
        match(r) == r.name = inv.name /\ r.kind = inv.kind
                    /\ r.namespace = inv_ns
        hits   == SelectSeq(rs, match)
    IN  IF hits # <<>> THEN <<Head(hits)>>
        ELSE IF inv.uid # NoValue /\ InResourceMap(rs, inv.uid)
        THEN <<ResourceMapGet(rs, inv.uid)>>
        ELSE <<>>
\* The target of an event: by involvedObject.uid when it is set and known,
\* else the first record matching (name, kind, namespace).  A sequence of 0
\* or 1 record.
FindTarget(event, rs) ==
    LET inv    == event.involvedObject
        inv_ns == IF inv.namespace = NoValue THEN event.namespace
                  ELSE inv.namespace
        match(r) == r.name = inv.name /\ r.kind = inv.kind
                    /\ r.namespace = inv_ns
        hits   == SelectSeq(rs, match)
    IN  IF inv.uid # NoValue /\ InResourceMap(rs, inv.uid)
        THEN <<ResourceMapGet(rs, inv.uid)>>
        ELSE IF hits = <<>> THEN <<>> ELSE <<Head(hits)>>

FailedStatuses == {"Failed", "NotReady", "Unavailable"}

\* The critical-path flag of an event issue: some upstream neighbour of the
\* target is a known record with a failed status.
EventCriticalPath(target, rs, g) ==
    \E dep \in get_dependencies(g, target.uid, "upstream") :
        InResourceMap(rs, dep)
        /\ ResourceMapGet(rs, dep).status \in FailedStatuses

\* The critical-path flag of a status issue: more than two dependents.
StatusCriticalPath(resource, g) ==
    Cardinality(get_dependencies(g, resource.uid, "downstream")) > 2

\* One pass of the log loop, for one record.
LogIssuesOf(r, rs, now) ==
    LET pods == SelectSeq(rs, LAMBDA x : x.kind = "Pod") IN
    IF r.kind = LOGANALYSIS /\ pods # <<>>
    THEN create_issue_from_logs(r.hasErrors, Head(pods), now)
    ELSE <<>>

\* One pass of the event loop, for one event.
EventIssuesOf(event, rs, g, now) ==
    IF event.kind # "Event" THEN <<>>
    ELSE LET t == FindTarget(event, rs) IN
         IF t = <<>> THEN <<>>
         ELSE <<create_issue_from_event(event, t[1],
                    EventCriticalPath(t[1], rs, g), now)>>

\* One pass of the status loop, for one record.
StatusIssuesOf(r, g) ==
    IF r.kind = "Event" THEN <<>>
    ELSE create_issue_from_resource_status(r, StatusCriticalPath(r, g))

\* The sort key of analyze_issues: (i.severity.value, -i.score).  The first
\* component is the enum's string value, compared as a string.
KeyLE(a, b) ==
    \/ StrOrd(a.severity) < StrOrd(b.severity)
    \/ StrOrd(a.severity) = StrOrd(b.severity) /\ (0 - a.score) <= (0 - b.score)

\* list.sort(key=...) is stable: an element goes after every element whose
\* key is not greater than its own.
InsertSorted(x, s) ==
    LET after == {i \in Indices(s) : ~KeyLE(s[i], x)}
        pos   == IF after = {} THEN Len(s) + 1
                 ELSE CHOOSE i \in after : \A j \in after : i <= j
    IN  SubSeq(s, 1, pos - 1) \o <<x>> \o SubSeq(s, pos, Len(s))

RECURSIVE SortInto(_, _)
SortInto(done, todo) ==
    IF todo = <<>> THEN done
    ELSE SortInto(InsertSorted(Head(todo), done), Tail(todo))

SortIssues(list) == SortInto(<<>>, list)

\* The issue assembly and ordering of analyze_issues, given that the loops
\* run: log issues, then event issues, then status issues, then the sort.
AnalyzeBody(rs, es, g, now) ==
    SortIssues(
        Flatten([i \in Indices(rs) |-> LogIssuesOf(rs[i], rs, now)])
        \o Flatten([i \in Indices(es) |-> EventIssuesOf(es[i], rs, g, now)])
        \o Flatten([i \in Indices(rs) |-> StatusIssuesOf(rs[i], g)]))

\* analyze_issues as a whole.  The first statement of the log loop evaluates
\* ResourceKind.LOGANALYSIS for the first record; the enumeration has no such
\* member, so the call raises AttributeError whenever there is a record.
analyze_issues(rs, es, g, now) ==
    IF rs # <<>> /\ EnumLookupRaises(LOGANALYSIS)
    THEN [raised |-> TRUE, issues |-> <<>>]
    ELSE [raised |-> FALSE, issues |-> AnalyzeBody(rs, es, g, now)]

\* get_root_cause: a sequence of 0 or 1 issue
get_root_cause(list) ==
    LET critical_issues == SelectSeq(list, LAMBDA i : i.severity = CRITICAL)
        critical_path_issues ==
            SelectSeq(critical_issues, LAMBDA i : i.critical_path)
    IN  IF list = <<>> THEN <<>>
        ELSE IF critical_issues # <<>>
             THEN IF critical_path_issues # <<>>
                  THEN <<critical_path_issues[1]>>
                  ELSE <<critical_issues[1]>>
             ELSE <<list[1]>>

\* get_contributing_factors without its score filter
get_contributing_factors_unfiltered(list, root_cause) ==
    LET filtered ==
            IF root_cause = <<>> THEN list
            ELSE SelectSeq(list, LAMBDA i :
                     i.uid # root_cause[1].uid \/ i.reason # root_cause[1].reason)
    IN  SubSeq(filtered, 1, Min(2, Len(filtered)))

\* get_contributing_factors
get_contributing_factors(list, root_cause) ==
    LET filtered ==
            IF root_cause = <<>> THEN list
            ELSE SelectSeq(list, LAMBDA i :
                     i.uid # root_cause[1].uid \/ i.reason # root_cause[1].reason)
        contributing == SelectSeq(filtered, LAMBDA i : i.score >= Pts(50))
    IN  SubSeq(contributing, 1, Min(2, Len(contributing)))

-----------------------------------------------------------------------------
(* cli/commands.py: DiagCommand.execute *)

\* The fields DiagnosisResult declares (models.py).  The class sets no
\* Config.extra, so assigning an attribute outside this set raises ValueError.
DiagnosisResultFields ==
    {"subject", "resource", "issues", "root_cause", "contributing_factors",
     "suggested_actions", "analysis_duration", "timestamp"}

SetAttrRaises(field) == field \notin DiagnosisResultFields

Failure(found, error) ==
    [found |-> found, error |-> error, has_result |-> FALSE, exit_code |-> 2,
     issues |-> <<>>, root_cause |-> <<>>, contributing_factors |-> <<>>]

\* DiagCommand.execute(subject), run at wall-clock time `now` over the
\* records and events the collectors and parsers delivered.
execute(subject, rs, es, g, now) ==
    LET all_resources == rs \o es
        matches == SelectSeq(all_resources, LAMBDA r :
                       r.kind = subject.kind /\ r.name = subject.name
                       /\ r.namespace = subject.namespace)
    IN  IF matches = <<>> THEN Failure(FALSE, "not found")
        ELSE
        LET target_resource == Head(matches)
            evs      == SelectSeq(all_resources, LAMBDA r : r.kind = "Event")
            analysis == analyze_issues(all_resources, evs, g, now)
        IN  IF analysis.raised THEN Failure(TRUE, "AttributeError")
            ELSE
            LET target_issues == SelectSeq(analysis.issues, LAMBDA i :
                                     i.uid = target_resource.uid)
                root_cause == get_root_cause(target_issues)
                contributing == get_contributing_factors(target_issues, root_cause)
            IN  IF SetAttrRaises("remediations") THEN Failure(TRUE, "ValueError")
                ELSE [found |-> TRUE, error |-> "", has_result |-> TRUE,
                      exit_code |->
                          IF \E k \in Indices(target_issues) :
                                 target_issues[k].severity \in {CRITICAL, WARNING}
                          THEN 2 ELSE 0,
                      issues |-> target_issues, root_cause |-> root_cause,
                      contributing_factors |-> contributing]

-----------------------------------------------------------------------------
(* The inputs of the scoring pipeline *)

Uids == {"u-web", "u-pvc", "u-ds", "u-node", "u-sa"}

PodPhases   == {"Running", "Failed", "Pending"}
PvcPhases   == {"Bound", "Pending"}
DsStatuses  == {"Available", "Unavailable"}

\* A DaemonSet-owned pod web-app that mounts the claim data, runs on node-1
\* under the default service account.
Cluster(podPhase, pvcPhase, dsStatus) ==
    << Record("u-web", "Pod", "web-app", "default", podPhase),
       Record("u-pvc", "PersistentVolumeClaim", "data", "default", pvcPhase),
       Record("u-ds", "DaemonSet", "agent", "default", dsStatus),
       Record("u-node", "Node", "node-1", NoValue, "Ready"),
       Record("u-sa", "ServiceAccount", "default", "default", "Active") >>

\* The edges the graph builder derives for these records, when the fields
\* that produce them are present.
PossibleEdges ==
    { <<"u-web", "u-pvc", "mounts">>, <<"u-web", "u-node", "scheduled-on">>,
      <<"u-web", "u-sa", "uses">>, <<"u-ds", "u-web", "owns">> }

\* The graphs of the model: no edges, the mount alone, the mount under a
\* DaemonSet owner, the pod's three outgoing edges, and all four.
EdgeSets ==
    { {},
      {<<"u-web", "u-pvc", "mounts">>},
      {<<"u-web", "u-pvc", "mounts">>, <<"u-ds", "u-web", "owns">>},
      PossibleEdges \ {<<"u-ds", "u-web", "owns">>},
      PossibleEdges }

WebByUid  == Involved("u-web", "web-app", "Pod", "default")
WebByName == Involved(NoValue, "web-app", "Pod", NoValue)
PvcByUid  == Involved("u-pvc", "data", "PersistentVolumeClaim", "default")
Gone      == Involved("u-gone", "gone", "Pod", "default")
\* a uid no record has, with the pod's name; the PVC's uid with the pod's name
Stale     == Involved("u-old", "web-app", "Pod", "default")
Mixed     == Involved("u-pvc", "web-app", "Pod", "default")

EventPool ==
    { EventRecord("e-mount", "FailedMount",
                  "MountVolume.SetUp failed for volume data", "Warning", WebByUid, 0),
      EventRecord("e-mount2", "FailedMount",
                  "MountVolume.SetUp failed for volume data", "Warning", WebByName, 0),
      EventRecord("e-sched", "FailedScheduling",
                  "0/3 nodes are available: insufficient cpu", "Warning", WebByUid, 0),
      EventRecord("e-backoff", "BackOff",
                  "Back-off restarting failed container", "Normal", Stale, 0),
      EventRecord("e-pull", "Pulling",
                  "Pulling image nginx:1.25", "Normal", WebByUid, NoTimestamp),
      EventRecord("e-prov", "ProvisioningFailed",
                  "Back-off restarting failed container", "Normal", PvcByUid, 0),
      EventRecord("e-mixed", "ProvisioningFailed", "", "Warning", Mixed, 0),
      EventRecord("e-orphan", "Failed", "", "Warning", Gone, 0) }

\* Wall-clock times (hours), one in each age bucket of an event stamped 0.
Times == {0, 2, 12, 48, 200}

Subjects ==
    { [kind |-> "Pod", name |-> "web-app", namespace |-> "default"],
      [kind |-> "Pod", name |-> "ghost", namespace |-> "default"] }

SeqsUpTo(S, n) == UNION {[1..k -> S] : k \in 0..n}

NoDiag == [found |-> FALSE, error |-> "not run", has_result |-> FALSE,
           exit_code |-> -1, issues |-> <<>>, root_cause |-> <<>>,
           contributing_factors |-> <<>>]

IdleIssue == made = <<>> /\ evals = <<>>
NoCommand == [kind |-> "", phase |-> "idle", parse_at |-> 0]
IdleColl  == coll = <<>> /\ cmd = NoCommand
IdleRes   == cb = <<>> /\ rl = <<>> /\ clock = 0 /\ wr = <<>> /\ obs = <<>>
IdleGraph == gb = <<>> /\ tree = <<>>
IdleFc    == fs = <<>> /\ runs = <<>> /\ hour = 0 /\ predictions = <<>>
IdleLate  ==
    /\ validation = <<>> /\ parser = <<>> /\ topcmd = <<>>
    /\ retry = <<>> /\ batch = <<>>
IdleOther == IdleRes /\ IdleGraph /\ IdleFc /\ IdleLate
IdleScore ==
    /\ resources = <<>> /\ events = <<>> /\ edges = {} /\ pc = "idle"
    /\ issues = <<>> /\ scope = NoValue /\ root = <<>> /\ factors = <<>>
    /\ diag = NoDiag

-----------------------------------------------------------------------------
(* The scoring pipeline *)

Init ==
    /\ \E p \in PodPhases, c \in PvcPhases, d \in DsStatuses :
           resources = Cluster(p, c, d)
    /\ events \in SeqsUpTo(EventPool, MaxEvents)
    /\ edges \in EdgeSets
    /\ pc = "start"
    /\ issues = <<>> /\ scope = NoValue /\ root = <<>> /\ factors = <<>>
    /\ diag = NoDiag
    /\ IdleIssue /\ IdleColl /\ IdleOther

Scopes == {NoValue, "u-web", "u-pvc"}

Scoped(list, uid) ==
    IF uid = NoValue THEN list ELSE SelectSeq(list, LAMBDA i : i.uid = uid)

\* analyze_issues(all_resources, events, graph) past the kind lookup.
AnalyzeIssues ==
    /\ pc = "start"
    /\ \E now \in Times :
           issues' = AnalyzeBody(resources \o events, events, edges, now)
    /\ pc' = "analyzed"
    /\ UNCHANGED <<resources, events, edges, scope, root, factors, diag>>
    /\ UNCHANGED <<issueVars, collVars>>
    /\ UNCHANGED otherVars

\* get_root_cause over the whole list or over the issues of one record
\* (diag passes the issues of its target).
GetRootCause ==
    /\ pc = "analyzed"
    /\ \E u \in Scopes :
           /\ scope' = u
           /\ root' = get_root_cause(Scoped(issues, u))
    /\ pc' = "rooted"
    /\ UNCHANGED <<resources, events, edges, issues, factors, diag>>
    /\ UNCHANGED <<issueVars, collVars>>
    /\ UNCHANGED otherVars

GetContributingFactors ==
    /\ pc = "rooted"
    /\ factors' = get_contributing_factors(Scoped(issues, scope), root)
    /\ pc' = "done"
    /\ UNCHANGED <<resources, events, edges, issues, scope, root, diag>>
    /\ UNCHANGED <<issueVars, collVars>>
    /\ UNCHANGED otherVars

DiagExecute ==
    /\ pc = "start"
    /\ \E subject \in Subjects, now \in Times :
           diag' = execute(subject, resources, events, edges, now)
    /\ pc' = "diag"
    /\ UNCHANGED <<resources, events, edges, issues, scope, root, factors>>
    /\ UNCHANGED <<issueVars, collVars>>
    /\ UNCHANGED otherVars

Next ==
    \/ AnalyzeIssues
    \/ GetRootCause
    \/ GetContributingFactors
    \/ DiagExecute

Spec == Init /\ [][Next]_vars

-----------------------------------------------------------------------------
(* Properties of the scoring pipeline *)

Analyzed == pc \in {"analyzed", "rooted", "done"}
Rooted   == pc \in {"rooted", "done"}

\* The severity rank of the specification: Critical > Warning > Info.
SevRank(sev) == CASE sev = CRITICAL -> 3 [] sev = WARNING -> 2 [] sev = INFO -> 1

\* Lexicographic order of the uids and reasons of the model, as ranks.
UidOrd(uid) ==
    CASE uid = "u-ds" -> 1 [] uid = "u-node" -> 2 [] uid = "u-pvc" -> 3
      [] uid = "u-sa" -> 4 [] uid = "u-web" -> 5
ReasonOrd(reason) ==
    CASE reason = "BackOff" -> 1 [] reason = "Failed" -> 2
      [] reason = "FailedMount" -> 3 [] reason = "FailedScheduling" -> 4
      [] reason = "LogFailure" -> 5 [] reason = "ProvisioningFailed" -> 6
      [] reason = "Pulling" -> 7 [] reason = "StatusFailed" -> 8
      [] reason = "StatusNotReady" -> 9 [] reason = "StatusOther" -> 10
      [] reason = "StatusPending" -> 11 [] reason = "StatusUnavailable" -> 12
      [] reason = "StatusUnknown" -> 13

TieLE(a, b) ==
    \/ UidOrd(a.uid) < UidOrd(b.uid)
    \/ UidOrd(a.uid) = UidOrd(b.uid) /\ ReasonOrd(a.reason) <= ReasonOrd(b.reason)

\* a may precede b in the order the specification states
SpecLE(a, b) ==
    \/ SevRank(a.severity) > SevRank(b.severity)
    \/ SevRank(a.severity) = SevRank(b.severity) /\ a.score > b.score
    \/ SevRank(a.severity) = SevRank(b.severity) /\ a.score = b.score /\ TieLE(a, b)

HasCritOrWarn(list) ==
    \E k \in Indices(list) : list[k].severity \in {CRITICAL, WARNING}

Target == resources[1]          \* the pod web-app

\* C1: when diag finds its target, the exit code is 2 if the target's issues
\* include a Critical or Warning issue and 0 otherwise; a found target that is
\* healthy, with no events, gives an empty issue list and exit code 0.
C1_DiagExitCode ==
    (pc = "diag" /\ diag.found) =>
        /\ diag.exit_code = IF HasCritOrWarn(diag.issues) THEN 2 ELSE 0
        /\ (Target.status = "Running" /\ events = <<>>) =>
               (diag.issues = <<>> /\ diag.exit_code = 0)

\* C5: the root cause is a Critical issue on a critical path if there is one,
\* else the highest-scoring Critical issue, else the highest-scoring issue of
\* the list; there is no root cause exactly when the list is empty.
C5_RootCause ==
    Rooted =>
        LET L == Scoped(issues, scope)
            crit(i) == i.severity = CRITICAL
        IN  /\ (root = <<>>) <=> (L = <<>>)
            /\ L # <<>> =>
                 /\ \E k \in Indices(L) : L[k] = root[1]
                 /\ IF \E k \in Indices(L) : crit(L[k]) /\ L[k].critical_path
                    THEN crit(root[1]) /\ root[1].critical_path
                    ELSE IF \E k \in Indices(L) : crit(L[k])
                    THEN /\ crit(root[1])
                         /\ \A k \in Indices(L) :
                                crit(L[k]) => L[k].score <= root[1].score
                    ELSE \A k \in Indices(L) : L[k].score <= root[1].score

\* C6: the list analyze_issues returns is ordered by severity rank descending,
\* then score descending, then (resourceUid, reason) lexicographically.
C6_ResultOrder ==
    Analyzed =>
        \A i, j \in Indices(issues) : i < j => SpecLE(issues[i], issues[j])

SameKey(i, r) == i.uid = r.uid /\ i.reason = r.reason

Eligible ==
    SelectSeq(Scoped(issues, scope), LAMBDA i :
        i.score >= Pts(50) /\ (root = <<>> \/ ~SameKey(i, root[1])))

Outranks(a, b) ==
    \/ SevRank(a.severity) > SevRank(b.severity)
    \/ SevRank(a.severity) = SevRank(b.severity) /\ a.score > b.score

\* C7: the contributing factors are the first two issues, in result order,
\* among those with score >= 50 that do not share (resourceUid, reason) with
\* the root cause: at most two, never the root cause, never below 50, and no
\* issue left out by position outranks one that is included.
C7_ContributingFactors ==
    pc = "done" =>
        /\ factors = SubSeq(Eligible, 1, Min(2, Len(Eligible)))
        /\ Len(factors) <= 2
        /\ \A k \in Indices(factors) :
               /\ factors[k].score >= Pts(50)
               /\ root # <<>> => ~SameKey(factors[k], root[1])
        /\ \A e \in Indices(Eligible), k \in Indices(factors) :
               e > 2 => ~Outranks(Eligible[e], factors[k])

\* Witness of C7: a root cause was chosen, two factors were returned and a
\* third eligible issue was left out by position.
C7_Witness ==
    pc = "done" /\ root # <<>> /\ Len(factors) = 2 /\ Len(Eligible) >= 3

IsMountIssue(i) == i.uid = "u-web" /\ i.reason = "FailedMount" /\ i.origin = "event"

\* C10: when the pod mounts a PVC that is Pending and a mount-failure event is
\* tied to the pod, the issue made from that event is on the critical path and
\* is the root cause in preference to issues that only report a Failed status.
C10_MountCriticalPath ==
    ( /\ Analyzed
      /\ <<"u-web", "u-pvc", "mounts">> \in edges
      /\ resources[2].status = "Pending"
      /\ \E k \in Indices(issues) : IsMountIssue(issues[k]) ) =>
        /\ \A k \in Indices(issues) :
               IsMountIssue(issues[k]) => issues[k].critical_path
        /\ (Rooted /\ scope \in {NoValue, "u-web"}) =>
               (root # <<>> /\ IsMountIssue(root[1]))

-----------------------------------------------------------------------------
(* Issue values: the constructor and the three issue builders *)

InitIssue == IdleScore /\ IdleColl /\ IdleOther /\ made = <<>> /\ evals = <<>>

\* Scores (in points) passed to the constructor directly
DirectScores == {0, 30, 49, 50, 75, 89, 90, 95, 100}

BuilderTargets ==
    { Cluster("Failed", "Pending", "Unavailable")[k] : k \in {1, 2, 4} }
StatusRecords ==
    { Cluster(p, c, d)[k] : p \in PodPhases, c \in PvcPhases, d \in DsStatuses,
                            k \in 1..5 }

\* Issue(resource_uid=..., score=s, severity=sev, ...) as a caller writes it
NewIssue ==
    /\ Len(made) < MaxMade
    /\ \E s \in DirectScores, sev \in IssueSeverity \cup {NoValue} :
           made' = Append(made, Issue("u-web", "TestReason", Pts(s), sev,
                                      FALSE, NoTimestamp, "direct"))
    /\ UNCHANGED <<evals, scoreVars, collVars>>
    /\ UNCHANGED otherVars

CreateIssueFromEvent ==
    /\ Len(made) < MaxMade
    /\ \E e \in EventPool, t \in BuilderTargets, cp \in BOOLEAN, now \in Times :
           made' = Append(made, create_issue_from_event(e, t, cp, now))
    /\ UNCHANGED <<evals, scoreVars, collVars>>
    /\ UNCHANGED otherVars

CreateIssueFromResourceStatus ==
    /\ Len(made) < MaxMade
    /\ \E r \in StatusRecords, cp \in BOOLEAN :
           /\ create_issue_from_resource_status(r, cp) # <<>>
           /\ made' = made \o create_issue_from_resource_status(r, cp)
    /\ UNCHANGED <<evals, scoreVars, collVars>>
    /\ UNCHANGED otherVars

CreateIssueFromLogs ==
    /\ Len(made) < MaxMade
    /\ \E t \in BuilderTargets, now \in Times :
           made' = made \o create_issue_from_logs(TRUE, t, now)
    /\ UNCHANGED <<evals, scoreVars, collVars>>
    /\ UNCHANGED otherVars

NextIssue ==
    \/ NewIssue
    \/ CreateIssueFromEvent
    \/ CreateIssueFromResourceStatus
    \/ CreateIssueFromLogs

SpecIssue == InitIssue /\ [][NextIssue]_vars

\* C8: every Issue value has 0 <= score <= 100 and the severity its score
\* gives (Critical iff >= 90, Warning iff 50..<90, Info iff < 50), also when
\* the constructor is given a severity that disagrees with the score.
C8_SeverityConsistent ==
    \A k \in Indices(made) :
        /\ 0 <= made[k].score /\ made[k].score <= Pts(100)
        /\ made[k].severity = SeverityOfScore(made[k].score)

-----------------------------------------------------------------------------
(* Evaluations of score_issue at different moments *)

InitScore == IdleScore /\ IdleColl /\ IdleOther /\ made = <<>> /\ evals = <<>>

ScoreInputs ==
    { [reason |-> e.reason, message |-> e.message, critical_path |-> cp,
       ts |-> e.ts] : e \in EventPool, cp \in BOOLEAN }

\* score_issue(issue) called at wall-clock time `now`; time does not run
\* backwards between calls.
ScoreIssue ==
    /\ Len(evals) < MaxEvals
    /\ \E i \in ScoreInputs, now \in Times :
           /\ evals # <<>> => now >= evals[Len(evals)].at
           /\ evals' = Append(evals,
                  [issue |-> i, at |-> now,
                   score |-> score_issue(i.reason, i.message, i.critical_path,
                                         i.ts, now)])
    /\ UNCHANGED <<made, scoreVars, collVars>>
    /\ UNCHANGED otherVars

NextScore == ScoreIssue

SpecScore == InitScore /\ [][NextScore]_vars

\* C9: two evaluations of score_issue on the same issue (same reason, message,
\* criticalPath flag and timestamp) return the same score, whatever the
\* moments of the two evaluations.
C9_Deterministic ==
    \A i, j \in Indices(evals) :
        evals[i].issue = evals[j].issue => evals[i].score = evals[j].score

-----------------------------------------------------------------------------
(* collectors/base.py: Collector._run_kubectl *)

\* Times of the collectors are in ticks of half a second.
TimeoutTicks       == 20     \* timeout_seconds = 10.0, the per-call deadline
OuterDeadlineTicks == 60     \* SubjectCtx.timeout = 30.0
MaxAttempts        == 3      \* while attempt < 3
FastTicks          == 1      \* an invocation that ends before its deadline

\* What one invocation of the CLI can do:
\*   ok        exit 0, output usable          badjson   exit 0, JSON unparseable
\*   rbac      non-zero, stderr names an RBAC denial
\*   transient non-zero, stderr mentions timeout / temporarily unavailable /
\*             connection refused
\*   fail      any other non-zero exit        deadline  the per-call deadline elapsed
\*   missing   kubectl is not in PATH (kubectl_path raises before the loop)
Outcomes  == {"ok", "badjson", "rbac", "transient", "fail", "deadline", "missing"}
Transient == {"transient", "deadline"}

Duration(outcome) ==
    IF outcome = "deadline" THEN TimeoutTicks
    ELSE IF outcome = "missing" THEN 0 ELSE FastTicks

NewCall(format) ==
    [format |-> format, attempt |-> 0, outcomes |-> <<>>, sleeps |-> <<>>,
     last_error |-> "none", result |-> "pending"]

\* One pass of the retry loop of _run_kubectl: invoke, classify, and either
\* return, raise, or count the attempt, sleep 0.5 * attempt seconds and go on.
\* When the third attempt has failed the loop ends and the last error is
\* raised (asyncio.TimeoutError as the collector's TimeoutError).
run_kubectl_step(call, outcome) ==
    LET h == Append(call.outcomes, outcome) IN
    CASE outcome = "missing" ->
             [call EXCEPT !.result = "CollectorError"]
      [] outcome = "ok" ->
             [call EXCEPT !.outcomes = h, !.result = "returned"]
      [] outcome = "badjson" ->
             [call EXCEPT !.outcomes = h,
                          !.result = IF call.format = "json"
                                     THEN "CollectorError" ELSE "returned"]
      [] outcome = "rbac" ->
             [call EXCEPT !.outcomes = h, !.result = "RBACError"]
      [] outcome \in {"transient", "fail", "deadline"} ->
             LET err == IF outcome = "deadline" THEN "asyncio.TimeoutError"
                        ELSE "KubectlError"
                 att == call.attempt + 1
             IN  [call EXCEPT !.outcomes = h, !.attempt = att,
                              !.last_error = err,
                              !.sleeps = Append(@, att),
                              !.result =
                                  IF att < MaxAttempts THEN "pending"
                                  ELSE IF err = "asyncio.TimeoutError"
                                       THEN "TimeoutError" ELSE "KubectlError"]

\* Ticks one pass takes: the invocation, and the sleep when it failed.
StepTicks(call, outcome) ==
    Duration(outcome)
    + IF outcome \in {"transient", "fail", "deadline"}
      THEN call.attempt + 1 ELSE 0

-----------------------------------------------------------------------------
(* collectors/base.py: the six collectors *)

CollectorNames == {"get", "describe", "events", "logs", "metrics", "kubelet"}

\* Collector.name
Source(name) ==
    CASE name = "get"      -> "kubectl_get"
      [] name = "describe" -> "kubectl_describe"
      [] name = "events"   -> "kubectl_events"
      [] name = "logs"     -> "kubectl_logs"
      [] name = "metrics"  -> "metrics_server"
      [] name = "kubelet"  -> "kubelet_metrics"

\* output_format of the collector's (first) call
Format(name) ==
    IF name \in {"get", "events", "kubelet"} THEN "json" ELSE ""

\* content type of the blob a successful collect returns
ContentType(name) ==
    IF name \in {"get", "events"} THEN "application/json" ELSE "text/plain"

Blob(data, name, content_type) ==
    [data |-> data, source |-> Source(name), content_type |-> content_type]
NoBlob == [data |-> "none", source |-> "", content_type |-> ""]

\* The blob of the `except Exception` branch of each collect
FailureBlob_json(name) == Blob("empty", name, "application/json")
FailureBlob(name) ==
    Blob("empty", name,
         IF name \in {"get", "events"} THEN "application/json" ELSE "text/plain")

Task(name) ==
    [name |-> name, st |-> "running", phase |-> IF name = "kubelet" THEN "list" ELSE "call",
     call |-> NewCall(Format(name)), nodes_left |-> 0, combined |-> FALSE,
     failed |-> FALSE, first_failed |-> FALSE, elapsed |-> 0, blob |-> NoBlob]

Finish(task, blob) == [task EXCEPT !.st = "done", !.blob = blob]

\* collect(subject) of get, describe, events, logs (Pod subject) and metrics,
\* advanced by one pass of the retry loop of its call.
simple_collect_step(task, outcome) ==
    LET c == run_kubectl_step(task.call, outcome)
        t == [task EXCEPT !.call = c,
                          !.elapsed = @ + StepTicks(task.call, outcome)]
    IN  IF c.result = "pending" THEN t
        ELSE IF c.result = "returned"
             THEN Finish(t, Blob("data", task.name, ContentType(task.name)))
             ELSE Finish([t EXCEPT !.failed = TRUE, !.first_failed = TRUE],
                         FailureBlob(task.name))

\* KubeletMetricsScrape.collect, advanced by one pass of the retry loop of its
\* current call: the node listing, then one raw scrape per listed node.  A
\* scrape that raises is skipped (RBACError silently, anything else logged);
\* `n` is the number of nodes the listing returns and `text` says whether a
\* scrape returned any text.
kubelet_collect_step(task, outcome, n, text) ==
    LET c == run_kubectl_step(task.call, outcome)
        t == [task EXCEPT !.call = c,
                          !.elapsed = @ + StepTicks(task.call, outcome)]
        joined(any) == Blob(IF any THEN "data" ELSE "empty", "kubelet", "text/plain")
    IN  IF c.result = "pending" THEN t
        ELSE IF task.phase = "list"
        THEN IF c.result = "returned"
             THEN IF n = 0 THEN Finish(t, joined(FALSE))
                  ELSE [t EXCEPT !.phase = "scrape", !.nodes_left = n,
                                 !.call = NewCall("")]
             ELSE Finish([t EXCEPT !.failed = TRUE, !.first_failed = TRUE],
                         FailureBlob("kubelet"))
        ELSE LET any == task.combined \/ (c.result = "returned" /\ text)
                 u   == [t EXCEPT !.combined = any,
                                  !.failed = @ \/ c.result # "returned",
                                  !.nodes_left = @ - 1]
             IN  IF u.nodes_left = 0 THEN Finish(u, joined(any))
                 ELSE [u EXCEPT !.call = NewCall("")]

-----------------------------------------------------------------------------
(* cli/commands.py: BaseCommand._collect_data *)

\* The collector lists of the model: graph's list, and the collectors of
\* diag's and top's lists that graph's list does not cover.
CollectorLists ==
    { <<"get", "describe">>, <<"events", "logs">>, <<"metrics">>, <<"kubelet">> }

SubjectKinds == {"Pod", "Deployment"}

InitCollect ==
    /\ IdleScore /\ IdleIssue /\ IdleOther
    /\ \E names \in CollectorLists :
           coll = [i \in Indices(names) |-> Task(names[i])]
    /\ \E k \in SubjectKinds :
           cmd = [kind |-> k, phase |-> "collecting", parse_at |-> 0]

Running(i) == cmd.phase = "collecting" /\ coll[i].st = "running"

\* The outcomes an invocation can have at this point of a call: kubectl can
\* be found missing only before the first invocation.
Possible(call) ==
    IF call.outcomes = <<>> /\ call.attempt = 0 THEN Outcomes
    ELSE Outcomes \ {"missing"}

\* KubectlLogs.collect for a subject that is not a Pod: an empty text blob,
\* without any invocation.
LogsNotPod(i) ==
    /\ Running(i)
    /\ coll[i].name = "logs" /\ cmd.kind # "Pod"
    /\ coll' = [coll EXCEPT ![i] = Finish(@, Blob("empty", "logs", "text/plain"))]
    /\ UNCHANGED <<cmd, scoreVars, issueVars>>
    /\ UNCHANGED otherVars

\* One pass of the retry loop inside a collector task.
RunKubectl(i) ==
    /\ Running(i)
    /\ coll[i].name # "kubelet"
    /\ ~(coll[i].name = "logs" /\ cmd.kind # "Pod")
    /\ \E o \in Possible(coll[i].call) :
           coll' = [coll EXCEPT ![i] = simple_collect_step(@, o)]
    /\ UNCHANGED <<cmd, scoreVars, issueVars>>
    /\ UNCHANGED otherVars

RunKubelet(i) ==
    /\ Running(i)
    /\ coll[i].name = "kubelet"
    /\ \E o \in Possible(coll[i].call), n \in 0..MaxNodes, text \in BOOLEAN :
           coll' = [coll EXCEPT ![i] = kubelet_collect_step(@, o, n, text)]
    /\ UNCHANGED <<cmd, scoreVars, issueVars>>
    /\ UNCHANGED otherVars

RECURSIVE MaxElapsed(_, _)
MaxElapsed(tasks, k) ==
    IF k = 0 THEN 0 ELSE Max(tasks[k].elapsed, MaxElapsed(tasks, k - 1))

\* asyncio.gather(*tasks) returns when every task has returned; only then are
\* the blobs parsed.  The tasks run in parallel, so the wait is the longest
\* task's time.  Nothing else ends the wait.
Gather ==
    /\ cmd.phase = "collecting"
    /\ \A i \in Indices(coll) : coll[i].st = "done"
    /\ cmd' = [cmd EXCEPT !.phase = "parsed",
                          !.parse_at = MaxElapsed(coll, Len(coll))]
    /\ UNCHANGED <<coll, scoreVars, issueVars>>
    /\ UNCHANGED otherVars

NextCollect ==
    \/ \E i \in Indices(coll) : LogsNotPod(i)
    \/ \E i \in Indices(coll) : RunKubectl(i)
    \/ \E i \in Indices(coll) : RunKubelet(i)
    \/ Gather

SpecCollect == InitCollect /\ [][NextCollect]_vars

Done(i) == coll[i].st = "done"

\* C2 (as stated): whenever a kubectl call of a collector fails, whatever the
\* failure, collect returns a blob with empty data, the collector's name as
\* source and the collector's declared content type.
C2_FailureGivesEmptyBlob ==
    \A i \in Indices(coll) :
        (Done(i) /\ coll[i].failed) =>
            coll[i].blob = Blob("empty", coll[i].name, ContentType(coll[i].name))

\* C2 (amended): collect never raises and its blob always carries the
\* collector's name as source and its declared content type; the data is empty
\* when the collector's first kubectl call fails.  Only the kubelet collector
\* makes further calls: a failed scrape of one node is skipped, and the data is
\* non-empty exactly when some node's scrape returned text.
C2_FailureBlob ==
    \A i \in Indices(coll) :
        /\ coll[i].st \in {"running", "done"}
        /\ Done(i) =>
            /\ coll[i].blob.source = Source(coll[i].name)
            /\ coll[i].blob.content_type = ContentType(coll[i].name)
            /\ coll[i].first_failed => coll[i].blob.data = "empty"
            /\ (coll[i].failed /\ coll[i].name # "kubelet") =>
                   coll[i].blob.data = "empty"
            /\ (coll[i].name = "kubelet" /\ ~coll[i].first_failed) =>
                   (coll[i].blob.data = "data" <=> coll[i].combined)

\* A finished kubelet collect in which one node's scrape failed and another
\* node's scrape returned text.
C2_Witness ==
    \E i \in Indices(coll) :
        /\ Done(i) /\ coll[i].name = "kubelet"
        /\ coll[i].failed /\ ~coll[i].first_failed
        /\ coll[i].blob.data = "data"

\* C3: a kubectl call makes at most three invocations, goes on to another
\* invocation only after a transient fault (timeout, temporarily unavailable,
\* connection refused), sleeps 0.5 s, 1.0 s, 1.5 s after the failed attempts,
\* and classifies an RBAC denial or any other non-transient non-zero exit
\* after that single invocation.
C3_RetryOnlyTransient ==
    \A i \in Indices(coll) :
        LET c == coll[i].call IN
        /\ Len(c.outcomes) <= MaxAttempts
        /\ c.sleeps = [k \in 1..Len(c.sleeps) |-> k]
        /\ \A k \in 1..Len(c.outcomes) :
               c.outcomes[k] \in {"rbac", "fail"} =>
                   k = Len(c.outcomes) /\ c.result # "pending"

\* C4: the command waits for its collectors for at most the outer deadline of
\* 30 s: no collector is still being waited for after it, and parsing starts
\* no later than it.
C4_OuterDeadline ==
    /\ \A i \in Indices(coll) : coll[i].elapsed <= OuterDeadlineTicks
    /\ cmd.phase = "parsed" => cmd.parse_at <= OuterDeadlineTicks

-----------------------------------------------------------------------------
(* resilience.py: CircuitBreaker *)

\* Times of the resilience module are in ticks of 20 seconds.
failure_threshold == 5       \* CircuitBreakerConfig.failure_threshold
success_threshold == 2       \* CircuitBreakerConfig.success_threshold
timeout_ticks     == 3       \* CircuitBreakerConfig.timeout_seconds = 60.0
MaxClock          == 6       \* the last tick of a behaviour
MaxBreakerClock   == 8       \* the last tick of a behaviour of the breaker alone
MaxResilienceClock == 4      \* the last tick of a behaviour of with_resilience
MaxEntries        == 3       \* calls of with_resilience in one behaviour
NoTime            == -1      \* last_failure_time is None

CLOSED    == "closed"
OPEN      == "open"
HALF_OPEN == "half_open"
CircuitState == {CLOSED, OPEN, HALF_OPEN}

\* CircuitBreaker.__init__
CircuitBreaker(now) ==
    [state |-> CLOSED, failure_count |-> 0, success_count |-> 0,
     last_failure_time |-> NoTime, last_state_change |-> now]

_transition_to_open(b, now) ==
    [b EXCEPT !.state = OPEN, !.last_state_change = now]

_transition_to_half_open_keeping_count(b, now) ==
    [b EXCEPT !.state = HALF_OPEN, !.last_state_change = now]
_transition_to_half_open(b, now) ==
    [b EXCEPT !.state = HALF_OPEN, !.success_count = 0,
              !.last_state_change = now]

_transition_to_closed(b, now) ==
    [b EXCEPT !.state = CLOSED, !.failure_count = 0, !.success_count = 0,
              !.last_state_change = now]

record_success_keeping_failures(b, now) ==
    IF b.state = HALF_OPEN
    THEN LET c == [b EXCEPT !.success_count = @ + 1]
         IN  IF c.success_count >= success_threshold
             THEN _transition_to_closed(c, now) ELSE c
    ELSE b
record_success(b, now) ==
    IF b.state = HALF_OPEN
    THEN LET c == [b EXCEPT !.success_count = @ + 1]
         IN  IF c.success_count >= success_threshold
             THEN _transition_to_closed(c, now) ELSE c
    ELSE IF b.state = CLOSED
    THEN [b EXCEPT !.failure_count = 0]
    ELSE b

\* record_failure that stamps the failure only while the breaker is not Open
record_failure_unstamped_when_open(b, now) ==
    LET c == IF b.state = OPEN THEN b
             ELSE [b EXCEPT !.last_failure_time = now] IN
    IF c.state = HALF_OPEN
    THEN _transition_to_open(c, now)
    ELSE IF c.state = CLOSED
    THEN LET d == [c EXCEPT !.failure_count = @ + 1]
         IN  IF d.failure_count >= failure_threshold
             THEN _transition_to_open(d, now) ELSE d
    ELSE c
record_failure(b, now) ==
    LET c == [b EXCEPT !.last_failure_time = now] IN
    IF c.state = HALF_OPEN
    THEN _transition_to_open(c, now)
    ELSE IF c.state = CLOSED
    THEN LET d == [c EXCEPT !.failure_count = @ + 1]
         IN  IF d.failure_count >= failure_threshold
             THEN _transition_to_open(d, now) ELSE d
    ELSE c

\* can_proceed: the answer and the breaker after the call.  `if
\* self.last_failure_time:` is false for None (and for 0.0, which time.time()
\* never returns: the clock of the model starts at 1).
can_proceed(b, now) ==
    IF b.state = CLOSED THEN [result |-> TRUE, cb |-> b]
    ELSE IF b.state = OPEN
    THEN IF b.last_failure_time # NoTime
            /\ now - b.last_failure_time >= timeout_ticks
         THEN [result |-> TRUE, cb |-> _transition_to_half_open(b, now)]
         ELSE [result |-> FALSE, cb |-> b]
    ELSE [result |-> TRUE, cb |-> b]

\* What an observer of the breaker's callers has counted, without reading the
\* breaker's own counters:
\*   op, result, before   the last operation, its answer, the breaker before it
\*   at       the time of the last operation
\*   total    failures recorded while Closed since the breaker last was closed
\*   streak   failures recorded while Closed since the last success or closing
\*   ho       successes recorded since the breaker last became HalfOpen
\* total and streak stop counting at failure_threshold.
Observe(o, op, result, b, c, now) ==
    LET closing == b.state # CLOSED /\ c.state = CLOSED
        inClosed == b.state = CLOSED
    IN  [op |-> op, result |-> result, before |-> b, at |-> now,
         total  |-> IF closing THEN 0
                    ELSE IF inClosed /\ op = "record_failure"
                    THEN Min(o.total + 1, failure_threshold) ELSE o.total,
         streak |-> IF closing \/ (inClosed /\ op = "record_success") THEN 0
                    ELSE IF inClosed /\ op = "record_failure"
                    THEN Min(o.streak + 1, failure_threshold) ELSE o.streak,
         ho     |-> IF b.state # HALF_OPEN /\ c.state = HALF_OPEN THEN 0
                    ELSE IF b.state = HALF_OPEN /\ op = "record_success"
                    THEN Min(o.ho + 1, success_threshold) ELSE o.ho]

NoObs == [op |-> "none", result |-> TRUE, before |-> CircuitBreaker(1),
          at |-> 1, total |-> 0, streak |-> 0, ho |-> 0]

IdleAll == IdleScore /\ IdleIssue /\ IdleColl /\ IdleGraph /\ IdleFc /\ IdleLate
IdleEarly ==
    IdleScore /\ IdleIssue /\ IdleColl /\ IdleRes /\ IdleGraph /\ IdleFc

InitBreaker ==
    /\ IdleAll
    /\ clock = 1
    /\ cb = CircuitBreaker(1)
    /\ rl = <<>> /\ wr = <<>>
    /\ obs = NoObs

RecordSuccess ==
    /\ cb' = record_success(cb, clock)
    /\ obs' = Observe(obs, "record_success", TRUE, cb, cb', clock)
    /\ UNCHANGED <<rl, clock, wr, notResVars>>

RecordFailure ==
    /\ cb' = record_failure(cb, clock)
    /\ obs' = Observe(obs, "record_failure", TRUE, cb, cb', clock)
    /\ UNCHANGED <<rl, clock, wr, notResVars>>

CanProceed ==
    LET r == can_proceed(cb, clock) IN
    /\ cb' = r.cb
    /\ obs' = Observe(obs, "can_proceed", r.result, cb, cb', clock)
    /\ UNCHANGED <<rl, clock, wr, notResVars>>

\* time.time() advances between two operations
Tick ==
    /\ clock < MaxBreakerClock
    /\ clock' = clock + 1
    /\ UNCHANGED <<cb, rl, wr, obs, notResVars>>

NextBreaker == RecordSuccess \/ RecordFailure \/ CanProceed \/ Tick

SpecBreaker == InitBreaker /\ [][NextBreaker]_vars

\* C11 (as stated): a Closed breaker is Open once the 5th failure has been
\* recorded, and is still Closed while fewer than 5 failures have been recorded.
C11_OpensAtFifthFailure ==
    /\ (cb.state = CLOSED) => obs.total < failure_threshold
    /\ (cb.state = OPEN /\ obs.before.state = CLOSED) =>
           obs.total >= failure_threshold

\* C11 (amended): a Closed breaker opens when the 5th failure in a row is
\* recorded, a success recorded while Closed starting the count anew; it is
\* still Closed after any sequence with fewer than 5 failures.
C11_OpensAtFifthConsecutiveFailure ==
    /\ (cb.state = CLOSED) => obs.streak < failure_threshold
    /\ (cb.state = OPEN /\ obs.before.state = CLOSED) =>
           /\ obs.op = "record_failure"
           /\ obs.streak = failure_threshold
    /\ (obs.total < failure_threshold /\ obs.before.state = CLOSED) =>
           cb.state = CLOSED

\* The 5th failure in a row has just opened the breaker.
C11_Witness ==
    /\ cb.state = OPEN /\ obs.before.state = CLOSED
    /\ obs.op = "record_failure" /\ obs.streak = failure_threshold

\* C12 (as stated): while the breaker is Open it stays Open and can_proceed
\* answers false until 60 s have passed since it opened; the first can_proceed
\* call 60 s or more after it opened makes it HalfOpen with success count 0
\* and is allowed.
C12_HalfOpenAfterTimeout ==
    (obs.before.state = OPEN) =>
        IF obs.at - obs.before.last_state_change < timeout_ticks
        THEN /\ cb.state = OPEN
             /\ obs.op = "can_proceed" => ~obs.result
        ELSE obs.op = "can_proceed" =>
                 /\ obs.result
                 /\ cb.state = HALF_OPEN
                 /\ cb.success_count = 0

\* C13: in HalfOpen the 2nd success recorded since entering HalfOpen, and no
\* earlier one, closes the breaker with both counts 0; one failure recorded
\* in HalfOpen opens it; no operation takes a transition other than
\* Closed->Open, Open->HalfOpen, HalfOpen->Closed, HalfOpen->Open.
C13_HalfOpenTransitions ==
    /\ (obs.before.state = HALF_OPEN /\ obs.op = "record_success") =>
           /\ cb.state = CLOSED <=> obs.ho = success_threshold
           /\ cb.state # CLOSED => cb.state = HALF_OPEN
           /\ cb.state = CLOSED =>
                  cb.failure_count = 0 /\ cb.success_count = 0
    /\ (obs.before.state = HALF_OPEN /\ obs.op = "record_failure") =>
           cb.state = OPEN
    /\ (obs.before.state # cb.state) =>
           <<obs.before.state, cb.state>> \in
               { <<CLOSED, OPEN>>, <<OPEN, HALF_OPEN>>,
                 <<HALF_OPEN, CLOSED>>, <<HALF_OPEN, OPEN>> }

\* The 2nd success of a HalfOpen period has just closed the breaker, after an
\* earlier HalfOpen period ended in a failure.
C13_Witness ==
    /\ obs.before.state = HALF_OPEN /\ obs.op = "record_success"
    /\ cb.state = CLOSED /\ obs.ho = success_threshold
    /\ obs.before.last_failure_time > 1

-----------------------------------------------------------------------------
(* resilience.py: RateLimiter *)

max_calls    == 2      \* RateLimiter(max_calls=...) of the model
period_ticks == 3      \* period_seconds = 60.0
MaxCallers   == 2      \* coroutines that call acquire / with_resilience
MaxGrants    == 4      \* acquisitions granted in one behaviour

Callers == 1..MaxCallers

RECURSIVE DropOld(_, _)
\* while self.calls and self.calls[0] < now - self.period_seconds: popleft()
DropOld(calls, now) ==
    IF calls # <<>> /\ calls[1] < now - period_ticks
    THEN DropOld(Tail(calls), now) ELSE calls

\* One run of the body of acquire up to its return or its sleep: the deque
\* after it, whether the call was recorded, and the time to sleep before
\* acquire is entered again.
acquire(calls, now) ==
    LET kept == DropOld(calls, now)
        wait_time == IF Len(kept) >= max_calls
                     THEN (kept[1] + period_ticks) - now ELSE 0
    IN  IF Len(kept) >= max_calls /\ wait_time > 0
        THEN [calls |-> kept, granted |-> FALSE, wait_time |-> wait_time]
        ELSE [calls |-> Append(kept, now), granted |-> TRUE, wait_time |-> 0]

NoCaller == [pc |-> "idle", wake_at |-> 0, attempt |-> 0, invoked |-> 0,
             last_exception |-> "none"]

\* The last moment at which a caller may arrive, so that every sleep ends
\* before the last tick.
LastArrival == MaxClock - period_ticks

InitLimiter ==
    /\ IdleAll
    /\ clock = 1
    /\ rl = <<>>
    /\ wr = [i \in Callers |-> NoCaller]
    /\ cb = CircuitBreaker(1)
    /\ obs = <<>>                     \* the grant times, in order of grant

\* acquire, from its entry (or re-entry after the sleep) to the grant or to
\* the next sleep; no await lies in between.
AcquireBody(i) ==
    LET r == acquire(rl, clock) IN
    /\ rl' = r.calls
    /\ IF r.granted
       THEN /\ wr' = [wr EXCEPT ![i].pc = "granted"]
            /\ obs' = Append(obs, clock)
       ELSE /\ wr' = [wr EXCEPT ![i].pc = "sleeping",
                                ![i].wake_at = clock + r.wait_time]
            /\ obs' = obs
    /\ UNCHANGED <<cb, clock, notResVars>>

Acquire(i) ==
    /\ wr[i].pc \in {"idle", "granted"}
    /\ clock <= LastArrival
    /\ Len(obs) + Cardinality({j \in Callers : wr[j].pc = "sleeping"}) < MaxGrants
    /\ AcquireBody(i)

\* asyncio.sleep(wait_time) is over: acquire is entered again.
WakeUp(i) ==
    /\ wr[i].pc = "sleeping"
    /\ clock >= wr[i].wake_at
    /\ AcquireBody(i)

TickLimiter ==
    /\ clock < MaxClock
    /\ clock' = clock + 1
    /\ UNCHANGED <<cb, rl, wr, obs, notResVars>>

NextLimiter ==
    \/ \E i \in Callers : Acquire(i)
    \/ \E i \in Callers : WakeUp(i)
    \/ TickLimiter

\* The event loop runs a coroutine whose sleep is over, and time passes.
SpecLimiter ==
    /\ InitLimiter /\ [][NextLimiter]_vars
    /\ \A i \in Callers : WF_vars(WakeUp(i))
    /\ WF_vars(TickLimiter)

\* Grants whose times lie in the window [t, t + period)
GrantsIn(t) == {k \in 1..Len(obs) : t <= obs[k] /\ obs[k] < t + period_ticks}

WindowBound == \A t \in 1..MaxClock : Cardinality(GrantsIn(t)) <= max_calls

\* C16: under any interleaving of concurrent acquire calls, no window of
\* length period holds more than max_calls grants, and a caller that was
\* suspended because the window was full is eventually granted.
C16_RateBound ==
    /\ []WindowBound
    /\ \A i \in Callers : (wr[i].pc = "sleeping") ~> (wr[i].pc = "granted")

-----------------------------------------------------------------------------
(* resilience.py: RetryStrategy and with_resilience *)

max_retries == 3             \* RetryStrategy(max_retries=3)

\* What one invocation of f can do
FOutcomes == {"ok", "transient", "permanent"}

\* with_resilience from its entry to its first suspension: the breaker is
\* asked, and only when it allows the call is acquire entered.
with_resilience_acquire_first(b, calls, now) ==
    LET a == acquire(calls, now)
        p == can_proceed(b, now)
    IN  [result |-> IF ~p.result THEN "rejected"
                    ELSE IF a.granted THEN "granted" ELSE "waiting",
         cb |-> p.cb, rl |-> a.calls, wait_time |-> a.wait_time]
with_resilience(b, calls, now) ==
    LET p == can_proceed(b, now) IN
    IF ~p.result
    THEN [result |-> "rejected", cb |-> p.cb, rl |-> calls, wait_time |-> 0]
    ELSE LET a == acquire(calls, now)
         IN  [result |-> IF a.granted THEN "granted" ELSE "waiting",
              cb |-> p.cb, rl |-> a.calls, wait_time |-> a.wait_time]

RECURSIVE Failures(_, _)
\* The breaker after n failures recorded at time `now` on a new breaker
Failures(n, now) ==
    IF n = 0 THEN CircuitBreaker(now)
    ELSE record_failure(Failures(n - 1, now), now)

\* The last entry into with_resilience: who entered, with which answer, on
\* which breaker and limiter; NoEntry once anything else has happened.
Seen(i, result) ==
    [op |-> "with_resilience", caller |-> i, result |-> result, before |-> cb,
     rl_before |-> rl, at |-> clock, entries |-> obs.entries + 1]
NoEntry ==
    [op |-> "other", caller |-> 1, result |-> "none",
     before |-> CircuitBreaker(1), rl_before |-> <<>>, at |-> 1,
     entries |-> 0]

\* default_circuit_breaker and default_rate_limiter live as long as the
\* process: a call finds them as earlier calls left them, here after four
\* failed calls that have aged out of the limiter's window.
InitResilience ==
    /\ IdleAll
    /\ clock = 1
    /\ cb = Failures(failure_threshold - 1, 1)
    /\ rl = <<>>
    /\ wr = [i \in Callers |-> NoCaller]
    /\ obs = NoEntry

\* with_resilience(f) is called by a coroutine that is not inside a call:
\* breaker check, acquire, and, when a slot is granted, the first invocation
\* of f.
Enter(i) ==
    /\ wr[i].pc \in {"idle", "returned", "raised", "rejected"}
    /\ clock < MaxResilienceClock
    /\ Len(rl) < MaxGrants
    /\ obs.entries < MaxEntries
    /\ LET r == with_resilience(cb, rl, clock) IN
       /\ cb' = r.cb
       /\ rl' = r.rl
       /\ obs' = Seen(i, r.result)
       /\ wr' = [wr EXCEPT ![i] =
                   CASE r.result = "rejected" ->
                            [NoCaller EXCEPT !.pc = "rejected"]
                     [] r.result = "granted"  ->
                            [NoCaller EXCEPT !.pc = "in_f", !.invoked = 1]
                     [] r.result = "waiting"  ->
                            [NoCaller EXCEPT !.pc = "sleeping",
                                             !.wake_at = clock + r.wait_time]]
    /\ UNCHANGED <<clock, notResVars>>

\* The sleep inside acquire is over: acquire is entered again, and on a grant
\* f is invoked.
Reacquire(i) ==
    /\ wr[i].pc = "sleeping"
    /\ clock >= wr[i].wake_at
    /\ LET a == acquire(rl, clock) IN
       /\ rl' = a.calls
       /\ obs' = [NoEntry EXCEPT !.entries = obs.entries]
       /\ wr' = [wr EXCEPT ![i] =
                   IF a.granted THEN [@ EXCEPT !.pc = "in_f", !.invoked = 1]
                   ELSE [@ EXCEPT !.wake_at = clock + a.wait_time]]
    /\ UNCHANGED <<cb, clock, notResVars>>

\* f returns or raises inside RetryStrategy.execute: a result is returned and
\* a success recorded (the locals of the call are gone with it); an exception is followed by the backoff sleep while
\* attempt < max_retries, and otherwise raised and a failure recorded.
FReturns(i) ==
    /\ wr[i].pc = "in_f"
    /\ \E o \in FOutcomes :
         IF o = "ok"
         THEN /\ cb' = record_success(cb, clock)
              /\ wr' = [wr EXCEPT ![i] = [NoCaller EXCEPT !.pc = "returned"]]
         ELSE IF wr[i].attempt < max_retries
         THEN /\ cb' = cb
              /\ wr' = [wr EXCEPT ![i].pc = "backoff",
                                  ![i].last_exception = o]
         ELSE /\ cb' = record_failure(cb, clock)
              /\ wr' = [wr EXCEPT ![i].pc = "raised",
                                  ![i].last_exception = o]
    /\ obs' = [NoEntry EXCEPT !.entries = obs.entries]
    /\ UNCHANGED <<rl, clock, notResVars>>

\* The backoff sleep is over: the next pass of the loop invokes f again.
Retry(i) ==
    /\ wr[i].pc = "backoff"
    /\ wr' = [wr EXCEPT ![i].pc = "in_f", ![i].attempt = @ + 1,
                        ![i].invoked = @ + 1]
    /\ obs' = [NoEntry EXCEPT !.entries = obs.entries]
    /\ UNCHANGED <<cb, rl, clock, notResVars>>

TickResilience ==
    /\ clock < MaxResilienceClock
    /\ clock' = clock + 1
    /\ obs' = [NoEntry EXCEPT !.entries = obs.entries]
    /\ UNCHANGED <<cb, rl, wr, notResVars>>

NextResilience ==
    \/ \E i \in Callers : Enter(i)
    \/ \E i \in Callers : Reacquire(i)
    \/ \E i \in Callers : FReturns(i)
    \/ \E i \in Callers : Retry(i)
    \/ TickResilience

SpecResilience == InitResilience /\ [][NextResilience]_vars

\* C14: when the breaker is Open and its timeout has not elapsed,
\* with_resilience rejects the call, f is not invoked, no call is recorded in
\* the rate limiter, and the breaker's state and counters are as before.
C14_RejectionChangesNothing ==
    ( /\ obs.op = "with_resilience"
      /\ obs.before.state = OPEN
      /\ obs.at - obs.before.last_state_change < timeout_ticks ) =>
        /\ obs.result = "rejected"
        /\ wr[obs.caller].pc = "rejected"
        /\ wr[obs.caller].invoked = 0
        /\ rl = obs.rl_before
        /\ cb = obs.before

\* A call has just been rejected by an Open breaker while another call,
\* admitted earlier, is still inside f.
C14_Witness ==
    /\ obs.op = "with_resilience" /\ obs.result = "rejected"
    /\ obs.before.state = OPEN
    /\ obs.at - obs.before.last_state_change < timeout_ticks
    /\ \E j \in Callers : wr[j].pc = "in_f"

\* C15: f is invoked again only after a transient error; after a
\* non-transient error f is not invoked again and the error is raised to the
\* caller, one failure having been recorded on the breaker.
C15_RetryOnlyTransient ==
    \A i \in Callers :
        wr[i].last_exception = "permanent" =>
            /\ wr[i].pc = "raised"
            /\ wr[i].invoked = 1

-----------------------------------------------------------------------------
(* graph/builder.py: GraphBuilder.add_resources *)

EdgeLabels == {"owns", "mounts", "scheduled-on", "selects", "uses", "binds-to"}

\* A record with the properties the relationship extractors read.
GraphRecord(uid, kind, name, ns, status) ==
    [uid |-> uid, kind |-> kind, name |-> name, namespace |-> ns,
     status |-> status,
     nodeName |-> NoValue,              \* spec.nodeName
     volumes |-> <<>>,                  \* spec.volumes: <<source, name>>
     serviceAccountName |-> "default",  \* spec.get(..., 'default')
     ownerReferences |-> <<>>,          \* metadata.ownerReferences: <<kind, uid>>
     app |-> NoValue,                   \* labels
     selector |-> NoValue,              \* spec.selector
     volumeName |-> NoValue,            \* status.volumeName
     replicas |-> 0]                    \* spec.replicas

\* GraphBuilder.__init__
GraphBuilder == [vertices |-> <<>>, resources |-> <<>>, edges |-> <<>>]

HasVertex(b, uid) == \E v \in Indices(b.vertices) : b.vertices[v] = uid

\* _add_vertex: a uid that has a vertex keeps it, and its record
_add_vertex(b, resource) ==
    IF HasVertex(b, resource.uid) THEN b
    ELSE [b EXCEPT !.vertices = Append(@, resource.uid),
                   !.resources = Append(@, resource)]

\* _find_resource_uid: the first record of self.resources that matches
_find_resource_uid(b, kind, name, ns) ==
    LET hits == {k \in Indices(b.resources) :
                    /\ b.resources[k].kind = kind
                    /\ b.resources[k].name = name
                    /\ b.resources[k].namespace = ns}
    IN  IF hits = {} THEN NoValue
        ELSE b.resources[CHOOSE k \in hits : \A j \in hits : k <= j].uid

\* a found uid as a one-element list of relationships
Found(uid, type) == IF uid = NoValue THEN <<>> ELSE << <<uid, type>> >>

VolumeKind(source) ==
    CASE source = "persistentVolumeClaim" -> "PersistentVolumeClaim"
      [] source = "configMap"             -> "ConfigMap"
      [] source = "secret"                -> "Secret"

RECURSIVE VolumeRelationships(_, _, _)
VolumeRelationships(b, pod, vols) ==
    IF vols = <<>> THEN <<>>
    ELSE Found(_find_resource_uid(b, VolumeKind(Head(vols)[1]),
                                  Head(vols)[2], pod.namespace), "mounts")
         \o VolumeRelationships(b, pod, Tail(vols))

_extract_pod_relationships(b, pod) ==
    (IF pod.nodeName # NoValue
     THEN Found(_find_resource_uid(b, "Node", pod.nodeName, NoValue),
                "scheduled-on")
     ELSE <<>>)
    \o VolumeRelationships(b, pod, pod.volumes)
    \o (IF pod.serviceAccountName # NoValue
        THEN Found(_find_resource_uid(b, "ServiceAccount",
                                      pod.serviceAccountName, pod.namespace),
                   "uses")
        ELSE <<>>)

\* one 'owns' entry per owner reference of `resource` that names the owner
OwnerHits(resource, ownerKind, owner) ==
    LET refs == resource.ownerReferences
        hit(k) == refs[k][1] = ownerKind /\ refs[k][2] = owner.uid
    IN  [k \in 1..Cardinality({j \in Indices(refs) : hit(j)}) |->
            <<resource.uid, "owns">>]

RECURSIVE OwnedOf(_, _, _, _, _)
\* the loop over self.resources of the deployment, replicaset and daemonset
\* extractors: records of kind `kind` in the owner's namespace
OwnedOf(b, owner, ownerKind, kind, k) ==
    IF k > Len(b.resources) THEN <<>>
    ELSE (IF /\ b.resources[k].kind = kind
             /\ b.resources[k].namespace = owner.namespace
          THEN OwnerHits(b.resources[k], ownerKind, owner) ELSE <<>>)
         \o OwnedOf(b, owner, ownerKind, kind, k + 1)

RECURSIVE Selected(_, _, _)
_extract_service_relationships(b, service) == Selected(b, service, 1)
Selected(b, service, k) ==
    IF service.selector = NoValue \/ k > Len(b.resources) THEN <<>>
    ELSE (IF /\ b.resources[k].kind = "Pod"
             /\ b.resources[k].namespace = service.namespace
             /\ b.resources[k].app = service.selector
          THEN << <<b.resources[k].uid, "selects">> >> ELSE <<>>)
         \o Selected(b, service, k + 1)

_extract_pvc_relationships(b, pvc) ==
    IF pvc.volumeName # NoValue
    THEN Found(_find_resource_uid(b, "PersistentVolume", pvc.volumeName,
                                  NoValue), "binds-to")
    ELSE <<>>

\* f"{sts.name}-{i}" for the names of the model
OrdinalName(name, i) == IF name = "db" /\ i = 0 THEN "db-0" ELSE NoValue

RECURSIVE Ordinals(_, _, _)
_extract_statefulset_relationships(b, sts) == Ordinals(b, sts, 0)
Ordinals(b, sts, i) ==
    IF i >= sts.replicas THEN <<>>
    ELSE Found(_find_resource_uid(b, "Pod", OrdinalName(sts.name, i),
                                  sts.namespace), "owns")
         \o Ordinals(b, sts, i + 1)

_extract_relationships(b, resource) ==
    CASE resource.kind = "Pod" -> _extract_pod_relationships(b, resource)
      [] resource.kind = "Deployment" ->
             OwnedOf(b, resource, "Deployment", "ReplicaSet", 1)
      [] resource.kind = "ReplicaSet" ->
             OwnedOf(b, resource, "ReplicaSet", "Pod", 1)
      [] resource.kind = "Service" -> _extract_service_relationships(b, resource)
      [] resource.kind = "PersistentVolumeClaim" ->
             _extract_pvc_relationships(b, resource)
      [] resource.kind = "StatefulSet" ->
             _extract_statefulset_relationships(b, resource)
      [] resource.kind = "DaemonSet" ->
             OwnedOf(b, resource, "DaemonSet", "Pod", 1)
      [] OTHER -> <<>>

\* _add_edge: nothing when an endpoint has no vertex, nothing when get_eid
\* finds an edge from source to target, otherwise a new edge.
_add_edge_unchecked(b, source_uid, target_uid, edge_type) ==
    IF ~HasVertex(b, source_uid) \/ ~HasVertex(b, target_uid) THEN b
    ELSE [b EXCEPT !.edges = Append(@, <<source_uid, target_uid, edge_type>>)]
_add_edge(b, source_uid, target_uid, edge_type) ==
    IF ~HasVertex(b, source_uid) \/ ~HasVertex(b, target_uid) THEN b
    ELSE IF \E e \in Indices(b.edges) :
                b.edges[e][1] = source_uid /\ b.edges[e][2] = target_uid
    THEN b
    ELSE [b EXCEPT !.edges = Append(@, <<source_uid, target_uid, edge_type>>)]

RECURSIVE AddEdges(_, _, _)
AddEdges(b, resource, rels) ==
    IF rels = <<>> THEN b
    ELSE AddEdges(IF HasVertex(b, Head(rels)[1])
                  THEN _add_edge(b, resource.uid, Head(rels)[1], Head(rels)[2])
                  ELSE b,
                  resource, Tail(rels))

_add_relationships(b, resource) ==
    AddEdges(b, resource, _extract_relationships(b, resource))

RECURSIVE FirstPass(_, _)
FirstPass(b, list) ==
    IF list = <<>> THEN b ELSE FirstPass(_add_vertex(b, Head(list)), Tail(list))

RECURSIVE SecondPass(_, _)
SecondPass(b, list) ==
    IF list = <<>> THEN b
    ELSE SecondPass(_add_relationships(b, Head(list)), Tail(list))

add_resources(b, list) == SecondPass(FirstPass(b, list), list)

\* The records of the model: a Deployment, its ReplicaSet, the ReplicaSet's
\* pod (whose two volumes name the same claim), the same pod as a later listing
\* reports it, the claim and its volume, the node, a Service selecting the pod,
\* and a StatefulSet with its pod.
GDep  == GraphRecord("u-dep", "Deployment", "web", "default", "Available")
GRs   == [GraphRecord("u-rs", "ReplicaSet", "web-1", "default", "Ready")
              EXCEPT !.ownerReferences = << <<"Deployment", "u-dep">> >>]
GPod  == [GraphRecord("u-web", "Pod", "web-app", "default", "Running")
              EXCEPT !.nodeName = "node-1",
                     !.volumes = << <<"persistentVolumeClaim", "data">>,
                                    <<"persistentVolumeClaim", "data">>,
                                    <<"secret", "tls">> >>,
                     !.ownerReferences = << <<"ReplicaSet", "u-rs">> >>,
                     !.app = "web"]
GPodLater == [GraphRecord("u-web", "Pod", "web-app", "default", "Failed")
              EXCEPT !.app = "web"]
GPvc  == [GraphRecord("u-pvc", "PersistentVolumeClaim", "data", "default", "Bound")
              EXCEPT !.volumeName = "pv-1"]
GPv   == GraphRecord("u-pv", "PersistentVolume", "pv-1", NoValue, "Bound")
GNode == GraphRecord("u-node", "Node", "node-1", NoValue, "Ready")
GSvc  == [GraphRecord("u-svc", "Service", "web", "default", "Active")
              EXCEPT !.selector = "web"]
GSts  == [GraphRecord("u-sts", "StatefulSet", "db", "default", "Ready")
              EXCEPT !.replicas = 1]
GDb   == [GraphRecord("u-db", "Pod", "db-0", "default", "Pending")
              EXCEPT !.volumes = << <<"persistentVolumeClaim", "data">> >>]

GraphPool == <<GDep, GRs, GPod, GPodLater, GPvc, GPv, GNode, GSvc, GSts, GDb>>

RECURSIVE Pick(_, _, _)
\* the records of the pool whose positions are in S, in pool order
Pick(pool, S, k) ==
    IF k > Len(pool) THEN <<>>
    ELSE (IF k \in S THEN <<pool[k]>> ELSE <<>>) \o Pick(pool, S, k + 1)

RECURSIVE Reverse(_)
Reverse(seq) == IF seq = <<>> THEN <<>> ELSE Reverse(Tail(seq)) \o <<Head(seq)>>

NoTree == [root |-> NoValue, direction |-> NoValue, lines |-> <<>>]

InitGraph ==
    /\ IdleScore /\ IdleIssue /\ IdleColl /\ IdleRes /\ IdleFc /\ IdleLate
    /\ \E S \in SUBSET Indices(GraphPool), backwards \in BOOLEAN :
          gb = [GraphBuilder EXCEPT !.vertices = <<>>] @@
               [input |-> IF backwards THEN Reverse(Pick(GraphPool, S, 1))
                          ELSE Pick(GraphPool, S, 1),
                built |-> FALSE]
    /\ tree = NoTree

\* graph_builder.add_resources(all_resources)
AddResources ==
    /\ ~gb.built
    /\ LET b == add_resources([vertices |-> gb.vertices,
                               resources |-> gb.resources,
                               edges |-> gb.edges], gb.input)
       IN  gb' = [gb EXCEPT !.vertices = b.vertices,
                            !.resources = b.resources,
                            !.edges = b.edges, !.built = TRUE]
    /\ UNCHANGED <<tree, notGraphVars>>

-----------------------------------------------------------------------------
(* graph/builder.py: GraphBuilder.to_ascii *)

max_depth == 3               \* to_ascii(..., max_depth=3)

EdgeSet(b) == {b.edges[e] : e \in Indices(b.edges)}

RECURSIVE InVertexOrder(_, _, _)
\* the uids of S in the order of their vertex ids
InVertexOrder(b, S, v) ==
    IF v > Len(b.vertices) THEN <<>>
    ELSE (IF b.vertices[v] \in S THEN <<b.vertices[v]>> ELSE <<>>)
         \o InVertexOrder(b, S, v + 1)

\* get_dependencies on the built graph, as a list
DepList(b, uid, direction) ==
    IF ~HasVertex(b, uid) THEN <<>>
    ELSE InVertexOrder(b, get_dependencies(EdgeSet(b), uid, direction), 1)

NodeLine(uid, depth) == [type |-> "node", uid |-> uid, depth |-> depth]
CycleLine(depth)     == [type |-> "cycle", uid |-> NoValue, depth |-> depth]

RECURSIVE _build_ascii_tree(_, _, _, _, _)
RECURSIVE TreeOfDeps(_, _, _, _, _)
\* _build_ascii_tree: the lines it appends.  A line's depth is the number of
\* prefix units before its connector, plus one.
_build_ascii_tree_depth_only(b, resource_uid, direction, current_depth, visited) ==
    IF current_depth >= max_depth
    THEN <<>>
    ELSE TreeOfDeps(b, DepList(b, resource_uid, direction), direction,
                    current_depth, visited \cup {resource_uid})
_build_ascii_tree(b, resource_uid, direction, current_depth, visited) ==
    IF current_depth >= max_depth \/ resource_uid \in visited
    THEN IF resource_uid \in visited
         THEN <<CycleLine(current_depth + 1)>> ELSE <<>>
    ELSE TreeOfDeps(b, DepList(b, resource_uid, direction), direction,
                    current_depth, visited \cup {resource_uid})

\* the loop over the dependencies of one vertex
TreeOfDeps(b, deps, direction, current_depth, visited) ==
    IF deps = <<>> THEN <<>>
    ELSE <<NodeLine(Head(deps), current_depth + 1)>>
         \o _build_ascii_tree(b, Head(deps), direction, current_depth + 1,
                              visited)
         \o TreeOfDeps(b, Tail(deps), direction, current_depth, visited)

to_ascii(b, root_uid, direction) ==
    IF \A k \in Indices(b.resources) : b.resources[k].uid # root_uid
    THEN <<[type |-> "not found", uid |-> root_uid, depth |-> 0]>>
    ELSE <<NodeLine(root_uid, 0)>>
         \o _build_ascii_tree(b, root_uid, direction, 0, {})

GraphUids == {GraphPool[k].uid : k \in Indices(GraphPool)} \cup {"u-gone"}
Directions == {"downstream", "upstream"}

\* GraphCommand: graph_builder.to_ascii(target_uid, direction, max_depth=3)
ToAscii ==
    /\ gb.built
    /\ \E r \in GraphUids, d \in Directions :
           tree' = [root |-> r, direction |-> d,
                    lines |-> to_ascii(gb, r, d)]
    /\ UNCHANGED <<gb, notGraphVars>>

NextGraph == AddResources \/ ToAscii

SpecGraph == InitGraph /\ [][NextGraph]_vars

\* C17: after construction there is at most one edge per ordered pair of
\* vertices and label, both endpoints of every edge are vertices, every label
\* is one of the six edge labels, and each uid has exactly one vertex, whose
\* record is the first record of the input with that uid.
C17_GraphWellFormed ==
    gb.built =>
        /\ \A e, f \in Indices(gb.edges) : gb.edges[e] = gb.edges[f] => e = f
        /\ \A e \in Indices(gb.edges) :
               /\ HasVertex(gb, gb.edges[e][1])
               /\ HasVertex(gb, gb.edges[e][2])
               /\ gb.edges[e][3] \in EdgeLabels
        /\ \A v, w \in Indices(gb.vertices) :
               gb.vertices[v] = gb.vertices[w] => v = w
        /\ Len(gb.resources) = Len(gb.vertices)
        /\ \A k \in Indices(gb.input) :
               \E v \in Indices(gb.vertices) :
                   /\ gb.vertices[v] = gb.input[k].uid
                   /\ gb.resources[v].uid = gb.input[k].uid
                   /\ \E j \in 1..k :
                          /\ gb.resources[v] = gb.input[j]
                          /\ \A h \in 1..(j - 1) :
                                 gb.input[h].uid # gb.input[j].uid

\* A graph built from an input that holds two records with one uid, and a pod
\* whose two volumes name the same claim.
C17_Witness ==
    /\ gb.built
    /\ \E j, k \in Indices(gb.input) :
           j < k /\ gb.input[j].uid = gb.input[k].uid
    /\ \E e \in Indices(gb.edges) : gb.edges[e] = <<"u-web", "u-pvc", "mounts">>

\* C18: no vertex is rendered below max_depth, and a rendered vertex at
\* max_depth that has neighbours in the requested direction is followed by a
\* cycle-or-cutoff marker under it.
C18_CutoffVisible ==
    \A k \in Indices(tree.lines) :
        LET l == tree.lines[k] IN
        l.type = "node" =>
            /\ l.depth <= max_depth
            /\ (l.depth = max_depth /\ DepList(gb, l.uid, tree.direction) # <<>>) =>
                   /\ k < Len(tree.lines)
                   /\ tree.lines[k + 1].type = "cycle"
                   /\ tree.lines[k + 1].depth = max_depth + 1

-----------------------------------------------------------------------------
(* The PVC utilisation cache (ForecastingEngine._append_pvc_utilization_sample)

   The cache is one JSON document at ~/.cache/kubectl-smart/metrics.json,
   rewritten through the fixed temporary path metrics.json.tmp.  A file is an
   inode holding a text; a path names an inode or nothing; an open file
   descriptor keeps naming its inode whatever the paths do afterwards.  A text
   is a sequence of tokens: an opening brace, the samples, a closing brace.
   The document is small against the write buffer, so json.dump reaches the
   file as one write at offset 0 when the with block closes it. *)

max_samples == 50
MaxRuns     == 2        \* concurrent invocations of kubectl-smart

PvcKeys  == {"default/data", "default/logs"}
KeyOrder == <<"default/data", "default/logs">>

Sample(key, ts, util) == [t |-> "sample", key |-> key, ts |-> ts, util |-> util]
OpenBrace  == [t |-> "{"]
CloseBrace == [t |-> "}"]

\* data = {"pvc": {}}
EmptyDoc == [k \in PvcKeys |-> <<>>]

\* json.dump(data, f): the text of a document.
json_dump(data) ==
    <<OpenBrace>> \o data[KeyOrder[1]] \o data[KeyOrder[2]] \o <<CloseBrace>>

\* json.load(f): the document of a text, or a failure.
json_load(text) ==
    LET n == Len(text)
        wellformed ==
            /\ n >= 2
            /\ text[1] = OpenBrace
            /\ text[n] = CloseBrace
            /\ \A j \in 2..(n - 1) : text[j].t = "sample"
    IN  IF wellformed
        THEN [ok |-> TRUE,
              data |-> [k \in PvcKeys |->
                           SelectSeq(SubSeq(text, 2, n - 1),
                                     LAMBDA x : x.key = k)]]
        ELSE [ok |-> FALSE, data |-> EmptyDoc]

NoFile == 0
EmptyDir == [inodes |-> <<>>, path |-> NoFile, tmp |-> NoFile]

\* A directory whose final path holds the given document.
DirWith(data) == [inodes |-> <<json_dump(data)>>, path |-> 1, tmp |-> NoFile]

\* A variant that keeps the oldest max_samples samples.
read_and_append_oldest(f, key, util, now) ==
    LET loaded == IF f.path = NoFile THEN EmptyDoc
                  ELSE LET r == json_load(f.inodes[f.path])
                       IN  IF r.ok THEN r.data ELSE EmptyDoc
        series == Append(loaded[key], Sample(key, now, util))
        kept   == IF Len(series) > max_samples
                  THEN SubSeq(series, 1, max_samples)
                  ELSE series
    IN  [loaded EXCEPT ![key] = kept]
\* The document an invocation holds after reading the cache and appending
\* its sample: lines 230-244.
read_and_append(f, key, util, now) ==
    LET loaded == IF f.path = NoFile THEN EmptyDoc
                  ELSE LET r == json_load(f.inodes[f.path])
                       IN  IF r.ok THEN r.data ELSE EmptyDoc
        series == Append(loaded[key], Sample(key, now, util))
        kept   == IF Len(series) > max_samples
                  THEN SubSeq(series, Len(series) - max_samples + 1, Len(series))
                  ELSE series
    IN  [loaded EXCEPT ![key] = kept]

\* open(tmp, "w"): create the temporary file, or truncate the one there is.
open_w(f) ==
    IF f.tmp = NoFile
    THEN [f EXCEPT !.inodes = Append(@, <<>>), !.tmp = Len(f.inodes) + 1]
    ELSE [f EXCEPT !.inodes[f.tmp] = <<>>]

\* The write of the whole text at offset 0 of the descriptor's inode: what
\* the inode holds beyond the text stays.
write(f, fd, text) ==
    LET old == f.inodes[fd]
    IN  [f EXCEPT !.inodes[fd] = text \o SubSeq(old, Len(text) + 1, Len(old))]

\* os.replace(tmp, path), where tmp exists.
os_replace(f) == [f EXCEPT !.path = f.tmp, !.tmp = NoFile]

\* One invocation alone, start to end.
_append_pvc_utilization_sample(f, key, util, now) ==
    LET data == read_and_append(f, key, util, now)
        f1   == open_w(f)
    IN  os_replace(write(f1, f1.tmp, json_dump(data)))

NoRun == [pc |-> "idle", data |-> EmptyDoc, fd |-> NoFile]
Runs  == 1..MaxRuns

CacheUtils == {40, 95}

\* A full series of one key, as earlier runs left it.
FullSeries(key) == [j \in 1..max_samples |-> Sample(key, 0, 40)]

InitCache ==
    /\ IdleScore /\ IdleIssue /\ IdleColl /\ IdleRes /\ IdleGraph /\ IdleLate
    /\ fs \in {EmptyDir,
               DirWith([EmptyDoc EXCEPT ![KeyOrder[1]] = FullSeries(KeyOrder[1])])}
    /\ runs = [i \in Runs |-> NoRun]
    /\ hour = 1
    /\ predictions = <<>>

\* Lines 230-244: read the document, append the sample, keep the last 50.
ReadCache(i) ==
    /\ runs[i].pc = "idle"
    /\ \E key \in PvcKeys, util \in CacheUtils :
          runs' = [runs EXCEPT ![i].pc = "open",
                               ![i].data = read_and_append(fs, key, util, hour)]
    /\ UNCHANGED <<fs, hour, predictions>>
    /\ UNCHANGED notFcVars

\* Lines 245-246: open(tmp, "w").
OpenTmp(i) ==
    /\ runs[i].pc = "open"
    /\ fs' = open_w(fs)
    /\ runs' = [runs EXCEPT ![i].pc = "write", ![i].fd = fs'.tmp]
    /\ UNCHANGED <<hour, predictions>>
    /\ UNCHANGED notFcVars

\* Lines 246-247: json.dump and the close of the with block.
WriteTmp(i) ==
    /\ runs[i].pc = "write"
    /\ fs' = write(fs, runs[i].fd, json_dump(runs[i].data))
    /\ runs' = [runs EXCEPT ![i].pc = "replace", ![i].fd = NoFile]
    /\ UNCHANGED <<hour, predictions>>
    /\ UNCHANGED notFcVars

\* Line 248: os.replace(tmp, path); FileNotFoundError when another invocation
\* has renamed the temporary file away.
Replace(i) ==
    /\ runs[i].pc = "replace"
    /\ IF fs.tmp = NoFile
       THEN /\ runs' = [runs EXCEPT ![i].pc = "failed"]
            /\ UNCHANGED fs
       ELSE /\ runs' = [runs EXCEPT ![i].pc = "done"]
            /\ fs' = os_replace(fs)
    /\ UNCHANGED <<hour, predictions>>
    /\ UNCHANGED notFcVars

NextCache ==
    \E i \in Runs : ReadCache(i) \/ OpenTmp(i) \/ WriteTmp(i) \/ Replace(i)

SpecCache == InitCache /\ [][NextCache]_vars

\* C20: whenever the cache file exists at its final path, it parses as a JSON
\* document, and every key of the document holds at most max_samples samples.
C20_CacheFileValid ==
    fs.path # NoFile =>
        LET r == json_load(fs.inodes[fs.path])
        IN  /\ r.ok
            /\ \A k \in PvcKeys : Len(r.data[k]) <= max_samples

-----------------------------------------------------------------------------
(* Capacity prediction (ForecastingEngine.predict_capacity_issues)

   Utilisations and metric values are whole numbers; the inputs are chosen
   so that the divisions of the code are exact, except the trend of
   _linear_forecast, which is rounded down.  Time is in hours and advances by
   HourStep, so that the horizon is a whole multiple of every positive
   distance between two samples.  What ExponentialSmoothing forecasts is not
   computed by this repository: the fit either raises or forecasts one of
   HoltWintersValues, and the code uses the forecast as it comes. *)

min_samples            == 7
forecast_horizon_hours == 48
actionable_threshold   == 90
pressure_utilization   == 95
HourStep               == 24
MaxHour                == 48      \* the latest moment of a prediction run
MaxHistory             == 2       \* samples the cache holds at most in a run

PressureTypes == {"DiskPressure", "MemoryPressure", "PIDPressure"}

HoltWintersValues == {95, 120}
HoltWinters == [raised : BOOLEAN, value : HoltWintersValues]

\* _load_pvc_utilization_series: the (ts, util) points of one key.
_load_pvc_utilization_series(f, key) ==
    IF f.path = NoFile THEN [raised |-> FALSE, series |-> <<>>]
    ELSE LET r == json_load(f.inodes[f.path])
         IN  IF r.ok THEN [raised |-> FALSE, series |-> r.data[key]]
             ELSE [raised |-> TRUE, series |-> <<>>]

NoForecast == [none |-> TRUE, value |-> 0]
Forecast(v) == [none |-> FALSE, value |-> v]

\* The projection of _forecast_from_history before it is clamped.  A distance
\* of zero between the points counts as 0.0001 hours.
Projected(series, current_util) ==
    LET n    == Len(series)
        pts  == SubSeq(series, Max(1, n - 2), n)
        p0   == pts[1]
        p1   == pts[Len(pts)]
        dt   == p1.ts - p0.ts
    IN  IF dt = 0
        THEN current_util + (p1.util - p0.util) * 10000 * forecast_horizon_hours
        ELSE current_util + (p1.util - p0.util) * (forecast_horizon_hours \div dt)

_forecast_from_history(series, current_util) ==
    IF Len(series) < 2 THEN NoForecast
    ELSE Forecast(Max(0, Min(100, Projected(series, current_util))))

\* _linear_forecast over the parsed values of the metric.
_linear_forecast(values) ==
    LET n == Len(values)
        recent == IF n >= 3 THEN SubSeq(values, n - 2, n) ELSE values
        periods == forecast_horizon_hours \div 24
        predicted == values[n]
                     + ((recent[Len(recent)] - recent[1]) * periods) \div Len(recent)
    IN  IF n < 2 THEN NoForecast
        ELSE [none |-> FALSE, current_value |-> values[n],
              predicted_value |-> Max(0, predicted), value |-> 0]

\* _forecast_time_series: Holt-Winters with enough samples, the linear
\* forecast otherwise and when the fit raises.
_forecast_time_series(values, statsmodels, hw) ==
    IF ~statsmodels \/ Len(values) < min_samples THEN _linear_forecast(values)
    ELSE IF hw.raised THEN _linear_forecast(values)
    ELSE [none |-> FALSE, current_value |-> values[Len(values)],
          predicted_value |-> hw.value, value |-> 0]

Prediction(type, resource, util, hours) ==
    [type |-> type, resource |-> resource,
     predicted_utilization |-> util, forecast_hours |-> hours]

\* The pressure predictions of a node, one per condition that is True.
RECURSIVE PressurePredictions(_, _)
PressurePredictions(node, conditions) ==
    IF conditions = <<>> THEN <<>>
    ELSE LET c == Head(conditions)
             rest == PressurePredictions(node, Tail(conditions))
         IN  IF c.status = "True" /\ c.type \in PressureTypes
             THEN <<Prediction("node_pressure", node.name,
                               pressure_utilization, 0)>> \o rest
             ELSE rest

\* _predict_node_capacity; node.cpu holds the parsed cpu values of the metric
\* records that carry the node's name.
_predict_node_capacity(node, statsmodels, hw) ==
    LET pressure == PressurePredictions(node, node.conditions)
        fc == _forecast_time_series(node.cpu, statsmodels, hw)
    IN  IF /\ node.cpu # <<>> /\ statsmodels
           /\ Len(node.cpu) >= min_samples
           /\ ~fc.none /\ fc.predicted_value >= actionable_threshold
        THEN Append(pressure,
                    Prediction("node_capacity", node.name, fc.predicted_value,
                               forecast_horizon_hours))
        ELSE pressure

PvcKey(pvc) == KeyOrder[pvc.key]

\* _predict_pvc_usage: what it predicts and what it leaves in the cache.
_predict_pvc_usage(f, pvc, now) ==
    IF pvc.storage_bytes = 0 THEN [fs |-> f, predictions |-> <<>>]
    ELSE IF ~(pvc.used_bytes > 0 /\ pvc.capacity_bytes > 0)
    THEN [fs |-> f, predictions |-> <<>>]
    ELSE
    LET utilization == (pvc.used_bytes * 100) \div pvc.capacity_bytes
        f1 == _append_pvc_utilization_sample(f, PvcKey(pvc), utilization, now)
        history == _load_pvc_utilization_series(f1, PvcKey(pvc))
        forecast == _forecast_from_history(history.series, utilization)
        predicted == IF history.raised \/ forecast.none THEN utilization
                     ELSE forecast.value
    IN  IF utilization >= 90
        THEN [fs |-> f1,
              predictions |-> <<Prediction("pvc_usage", PvcKey(pvc),
                                           utilization, 0)>>]
        ELSE [fs |-> f1,
              predictions |-> <<Prediction("pvc_usage", PvcKey(pvc), predicted,
                                           forecast_horizon_hours)>>]

RECURSIVE NodePredictions(_, _, _)
NodePredictions(nodes, statsmodels, hw) ==
    IF nodes = <<>> THEN <<>>
    ELSE _predict_node_capacity(Head(nodes), statsmodels, hw)
         \o NodePredictions(Tail(nodes), statsmodels, hw)

RECURSIVE PvcPredictions(_, _, _)
PvcPredictions(f, pvcs, now) ==
    IF pvcs = <<>> THEN [fs |-> f, predictions |-> <<>>]
    ELSE LET first == _predict_pvc_usage(f, Head(pvcs), now)
             rest  == PvcPredictions(first.fs, Tail(pvcs), now)
         IN  [fs |-> rest.fs, predictions |-> first.predictions \o rest.predictions]

\* The filter of line 69.
Actionable(ps) ==
    SelectSeq(ps, LAMBDA p : p.predicted_utilization >= actionable_threshold)

predict_capacity_issues(f, nodes, pvcs, statsmodels, hw, now) ==
    LET fromPvcs == PvcPredictions(f, pvcs, now)
    IN  [fs |-> fromPvcs.fs,
         predictions |-> Actionable(NodePredictions(nodes, statsmodels, hw)
                                    \o fromPvcs.predictions)]

Flat(v) == [j \in 1..min_samples |-> v]

NodeInputs ==
    { <<>>,
      <<[name |-> "node-a",
         conditions |-> <<[type |-> "Ready", status |-> "True"],
                          [type |-> "DiskPressure", status |-> "True"]>>,
         cpu |-> <<>>]>>,
      <<[name |-> "node-b",
         conditions |-> <<[type |-> "MemoryPressure", status |-> "False"]>>,
         cpu |-> Flat(100)]>>,
      <<[name |-> "node-c", conditions |-> <<>>,
         cpu |-> <<2, 2, 2>>]>> }

PvcRecord(key, storage, used, capacity) ==
    [key |-> key, storage_bytes |-> storage,
     used_bytes |-> used, capacity_bytes |-> capacity]

PvcInputs ==
    { <<>> }
    \cup { <<PvcRecord(1, 10, used, 10)>> : used \in {0, 4, 9, 12} }
    \cup { <<PvcRecord(1, 0, 9, 10)>>,
           <<PvcRecord(1, 10, 8, 10), PvcRecord(2, 10, 10, 10)>> }

\* The records and the environment of one run: nodes alone under every
\* environment, claims alone, or one of each.
Fitted(v) == [raised |-> FALSE, value |-> v]

CapacityInputs ==
    { [nodes |-> n, pvcs |-> <<>>, statsmodels |-> sm, hw |-> h] :
          n \in NodeInputs \ {<<>>}, sm \in BOOLEAN, h \in HoltWinters }
    \cup { [nodes |-> <<>>, pvcs |-> p, statsmodels |-> TRUE, hw |-> Fitted(95)] :
              p \in PvcInputs }
    \cup { [nodes |-> n, pvcs |-> <<PvcRecord(1, 10, 12, 10)>>,
            statsmodels |-> TRUE, hw |-> Fitted(120)] :
              n \in NodeInputs \ {<<>>} }

InitForecast ==
    /\ IdleScore /\ IdleIssue /\ IdleColl /\ IdleRes /\ IdleGraph /\ IdleLate
    /\ fs = EmptyDir
    /\ runs = <<>>
    /\ hour = 0
    /\ predictions = <<>>

CachedSamples(f) ==
    IF f.path = NoFile THEN 0 ELSE Len(f.inodes[f.path]) - 2

\* One run of the top command's capacity forecast: commands.py:414.
PredictCapacity ==
    \E in \in CapacityInputs :
        \E r \in {predict_capacity_issues(fs, in.nodes, in.pvcs,
                                         in.statsmodels, in.hw, hour)} :
            /\ CachedSamples(r.fs) <= MaxHistory
            /\ fs' = r.fs
            /\ predictions' = r.predictions
            /\ UNCHANGED <<runs, hour>>
            /\ UNCHANGED notFcVars

\* Time passes between two runs.
AdvanceHour ==
    /\ hour + HourStep <= MaxHour
    /\ hour' = hour + HourStep
    /\ predictions' = <<>>
    /\ UNCHANGED <<fs, runs>>
    /\ UNCHANGED notFcVars

NextForecast == PredictCapacity \/ AdvanceHour

SpecForecast == InitForecast /\ [][NextForecast]_vars

\* C19: every prediction of the result has a predicted utilisation of at
\* least 90 and at most 100.
C19_UtilizationInRange ==
    \A k \in Indices(predictions) :
        /\ predictions[k].predicted_utilization >= actionable_threshold
        /\ predictions[k].predicted_utilization <= 100

-----------------------------------------------------------------------------
(* The cache under one invocation at a time: each run appends its sample from
   start to end before the next one begins. *)

MaxAppends == 3         \* appends of one behaviour

\* The caches earlier runs have left: none, a series one short of the limit,
\* a series at the limit; the other key holds one sample.
EarlierSeries(key, n) == [j \in 1..n |-> Sample(key, 0, 40)]

EarlierCaches ==
    { EmptyDir }
    \cup { DirWith([EmptyDoc EXCEPT
                      ![KeyOrder[1]] = EarlierSeries(KeyOrder[1], n),
                      ![KeyOrder[2]] = EarlierSeries(KeyOrder[2], 1)]) :
             n \in {max_samples - 1, max_samples} }

InitAppend ==
    /\ IdleScore /\ IdleIssue /\ IdleColl /\ IdleRes /\ IdleGraph /\ IdleLate
    /\ fs \in EarlierCaches
    /\ runs = <<>>
    /\ hour = 1
    /\ predictions = <<>>

\* _predict_pvc_usage appends the sample of a claim: line 181.
AppendSample ==
    /\ Len(runs) < MaxAppends
    /\ \E key \in PvcKeys, util \in CacheUtils :
          /\ fs' = _append_pvc_utilization_sample(fs, key, util, hour)
          /\ runs' = Append(runs, [NoRun EXCEPT !.pc = "done"])
    /\ UNCHANGED <<hour, predictions>>
    /\ UNCHANGED notFcVars

\* Time passes between two appends.
NextHour ==
    /\ hour < MaxAppends
    /\ hour' = hour + 1
    /\ UNCHANGED <<fs, runs, predictions>>
    /\ UNCHANGED notFcVars

NextAppend == AppendSample \/ NextHour

SpecAppend == InitAppend /\ [][NextAppend]_vars

SeriesOf(f, key) == _load_pvc_utilization_series(f, key).series

LastOf(seq, n) ==
    IF Len(seq) > n THEN SubSeq(seq, Len(seq) - n + 1, Len(seq)) ELSE seq

\* The step is an append to the series of key.
AppendedTo(key) ==
    LET after == SeriesOf(fs', key)
    IN  /\ after # <<>>
        /\ after[Len(after)].ts = hour
        /\ after[Len(after)].util \in CacheUtils
        /\ after = LastOf(Append(SeriesOf(fs, key), after[Len(after)]),
                          max_samples)
        /\ \A other \in PvcKeys \ {key} :
               SeriesOf(fs', other) = SeriesOf(fs, other)

\* C21: every append adds exactly one sample at the end of the series of its
\* key and leaves the series of every other key as it was; a series that
\* would exceed max_samples keeps exactly its most recent max_samples
\* samples, in order; the file parses after every append.
C21_AppendKeepsLast50 ==
    [][ runs' # runs =>
          /\ fs'.path # NoFile
          /\ json_load(fs'.inodes[fs'.path]).ok
          /\ \E key \in PvcKeys : AppendedTo(key)
          /\ \A key \in PvcKeys : Len(SeriesOf(fs', key)) <= max_samples ]_vars

\* The same sample has been appended twice to a series at the limit: the
\* series holds max_samples samples, the two newest are equal and of this
\* run, and the other key still holds its one sample.
C21_Witness ==
    LET series == SeriesOf(fs, KeyOrder[1])
    IN  /\ Len(runs) >= 2
        /\ Len(series) = max_samples
        /\ series[max_samples] = series[max_samples - 1]
        /\ series[max_samples].ts = hour
        /\ series[1].ts = 0
        /\ Len(SeriesOf(fs, KeyOrder[2])) = 1

-----------------------------------------------------------------------------
(* validation.py: InputValidator.validate_resource_name, and the diag command
   that validates its name argument before it does anything else.

   A name is a sequence of characters.  RESOURCE_NAME_PATTERN is matched with
   re.match, whose $ matches at the end of the string and also just before a
   newline that ends the string. *)

MAX_RESOURCE_NAME_LENGTH == 253
MaxNameLen == 3         \* the longest name enumerated character by character

Lower  == {"a", "z"}
Digit  == {"0"}
Hyphen == {"-"}
Alnum  == Lower \cup Digit
NameChars == Lower \cup Digit \cup Hyphen \cup {"A", "_", " ", "@", "\n"}

Repeat(c, n) == [j \in 1..n |-> c]

\* The names given on the command line.
Names ==
    UNION { [1..n -> NameChars] : n \in 0..MaxNameLen }
    \cup { Repeat("a", MAX_RESOURCE_NAME_LENGTH),
           Repeat("a", MAX_RESOURCE_NAME_LENGTH + 1),
           Append(Repeat("a", MAX_RESOURCE_NAME_LENGTH - 1), "\n"),
           Append(Repeat("a", MAX_RESOURCE_NAME_LENGTH), "\n") }

\* [a-z0-9]([-a-z0-9]*[a-z0-9])? over the whole of text.
LabelBody(text) ==
    /\ Len(text) >= 1
    /\ text[1] \in Alnum
    /\ text[Len(text)] \in Alnum
    /\ \A j \in 1..Len(text) : text[j] \in Alnum \cup Hyphen

\* RESOURCE_NAME_PATTERN.match(name)
RESOURCE_NAME_PATTERN_match(name) ==
    \/ LabelBody(name)
    \/ /\ Len(name) >= 2
       /\ name[Len(name)] = "\n"
       /\ LabelBody(SubSeq(name, 1, Len(name) - 1))

Raised(message) == [raised |-> TRUE, message |-> message, value |-> <<>>]
Returned(value) == [raised |-> FALSE, message |-> "", value |-> value]

validate_resource_name(name) ==
    IF name = <<>> THEN Raised("Resource name cannot be empty")
    ELSE IF Len(name) > MAX_RESOURCE_NAME_LENGTH
    THEN Raised("Resource name too long")
    ELSE IF ~RESOURCE_NAME_PATTERN_match(name)
    THEN Raised("Invalid resource name")
    ELSE Returned(name)

InitValidate ==
    /\ IdleScore /\ IdleIssue /\ IdleColl /\ IdleRes /\ IdleGraph /\ IdleFc
    /\ parser = <<>> /\ topcmd = <<>> /\ retry = <<>> /\ batch = <<>>
    /\ \E name \in Names :
          validation = [name |-> name, phase |-> "given", exit_code |-> -1,
                        validated |-> <<>>, kubectl_calls |-> 0]

\* main.py:131-142: the name is validated; a ValidationError ends the command
\* with exit code 2.
ValidateInputs ==
    /\ validation.phase = "given"
    /\ LET r == validate_resource_name(validation.name) IN
       validation' =
           IF r.raised
           THEN [validation EXCEPT !.phase = "exited", !.exit_code = 2]
           ELSE [validation EXCEPT !.phase = "validated", !.validated = r.value]
    /\ UNCHANGED <<parser, topcmd, retry, batch>>
    /\ UNCHANGED notLateVars

\* The command goes on to its collectors, which invoke kubectl with the name.
RunCollectors ==
    /\ validation.phase = "validated"
    /\ validation' = [validation EXCEPT !.phase = "collecting",
                                        !.kubectl_calls = 1]
    /\ UNCHANGED <<parser, topcmd, retry, batch>>
    /\ UNCHANGED notLateVars

NextValidate == ValidateInputs \/ RunCollectors

SpecValidate == InitValidate /\ [][NextValidate]_vars

\* A name of the DNS-label set: not empty, at most 253 characters, lowercase
\* letters, digits and hyphens only, a letter or digit first and last.
IsDnsLabel(name) ==
    /\ name # <<>>
    /\ Len(name) <= 253
    /\ \A j \in 1..Len(name) : name[j] \in {"a", "z", "0", "-"}
    /\ name[1] \in {"a", "z", "0"}
    /\ name[Len(name)] \in {"a", "z", "0"}

\* C22: once the name has been validated, it was returned unchanged exactly
\* when it is a DNS label; every other name has ended the command with exit
\* code 2, and no kubectl invocation has been made for it.
C22_OnlyDnsLabelsPass ==
    validation.phase # "given" =>
        IF IsDnsLabel(validation.name)
        THEN /\ validation.phase \in {"validated", "collecting"}
             /\ validation.validated = validation.name
        ELSE /\ validation.phase = "exited"
             /\ validation.exit_code = 2
             /\ validation.kubectl_calls = 0

-----------------------------------------------------------------------------
(* parsers/base.py: KubernetesResourceParser (lines 89-180) *)

\* The JSON values handed to the parser.  An item of a List (or a single
\* object) is one of: an object with the fields below, the empty object, or a
\* JSON string.  `metadata` says whether the object has a metadata object
\* ("dict"), has "metadata": null, or has none; name and uid are "" when the
\* key is missing.  The items carry no status section.
MaxFeeds == 2
MaxItems == 2

Item(kind, metadata, name, uid) ==
    [shape |-> "dict", kind |-> kind, metadata |-> metadata, name |-> name,
     uid |-> uid, namespace |-> "default"]
EmptyItem == [shape |-> "empty", kind |-> "", metadata |-> "absent",
              name |-> "", uid |-> "", namespace |-> ""]
StringItem == [shape |-> "string", kind |-> "", metadata |-> "absent",
               name |-> "", uid |-> "", namespace |-> ""]

\* Python's None standing where a record is expected
NoneRecord == Record("", "None", "", "", "")

\* _extract_resource_status (182-225) for an object without a status section
_extract_resource_status(kind) ==
    IF kind \in {"Pod", "Node", "Deployment", "StatefulSet", "DaemonSet",
                 "PersistentVolumeClaim", "PersistentVolume"}
    THEN "Unknown"
    ELSE IF kind = "Job" THEN "Running" ELSE "Active"

\* _parse_single_resource (120-180): None for a value that is not an object
\* or whose metadata is null (AttributeError, caught at 178), for a kind
\* outside ResourceKind (128-132), and for a missing name or uid (138-140).
_parse_single_resource(data) ==
    IF data.shape # "dict" \/ data.metadata = "null" THEN NoneRecord
    ELSE IF data.kind \notin ResourceKind THEN NoneRecord
    ELSE IF data.metadata = "absent" \/ data.name = "" \/ data.uid = ""
    THEN NoneRecord
    ELSE Record(data.uid, data.kind, data.name, data.namespace,
                _extract_resource_status(data.kind))

\* The data of a blob: text that is not JSON, a JSON array, a List object
\* with its items, or a single object.
Malformed == [json |-> "malformed", items |-> <<>>]
JsonArray == [json |-> "array", items |-> <<>>]
ListOf(items) == [json |-> "List", items |-> items]
Single(item) == [json |-> "object", items |-> <<item>>]

JsonBlob(data) ==
    [data |-> data, source |-> "kubectl_get",
     content_type |-> "application/json"]
TextBlob(data) ==
    [data |-> data, source |-> "kubectl_describe",
     content_type |-> "text/plain"]

\* feed (92-119).  A List gives one entry per truthy item, whatever
\* _parse_single_resource returned for it (line 111); a single object gives
\* its record or nothing (113-114).
feed(blob) ==
    IF blob.content_type # "application/json" THEN <<>>
    ELSE IF blob.data.json \in {"malformed", "array"} THEN <<>>
    ELSE IF blob.data.json = "List"
    THEN LET items == SelectSeq(blob.data.items,
                                LAMBDA item : item.shape # "empty")
         IN  [i \in 1..Len(items) |-> _parse_single_resource(items[i])]
    ELSE LET resource == _parse_single_resource(blob.data.items[1])
         IN  IF resource # NoneRecord /\ blob.data.items[1].shape # "empty"
             THEN <<resource>> ELSE <<>>

ParserItems ==
    {Item("Pod", "dict", "web", "u1"), Item("Secret", "dict", "tls", "u2"),
     Item("Widget", "dict", "w", "u3"), Item("Pod", "dict", "web", ""),
     Item("Pod", "dict", "", "u4"), Item("Pod", "absent", "", ""),
     Item("Pod", "null", "", ""), EmptyItem, StringItem}

ParserBlobs ==
    {JsonBlob(Malformed), JsonBlob(JsonArray), TextBlob(Malformed)}
    \cup {JsonBlob(Single(i)) : i \in ParserItems}
    \cup {JsonBlob(ListOf(items)) : items \in SeqsUpTo(ParserItems, MaxItems)}

InitParse ==
    /\ IdleEarly
    /\ validation = <<>> /\ topcmd = <<>> /\ retry = <<>> /\ batch = <<>>
    /\ parser = [fed |-> 0, blob |-> TextBlob(Malformed), result |-> <<>>]

\* One call of parser_registry.parse on a kubernetes blob
Feed ==
    /\ parser.fed < MaxFeeds
    /\ \E blob \in ParserBlobs :
         parser' = [fed |-> parser.fed + 1, blob |-> blob,
                    result |-> feed(blob)]
    /\ UNCHANGED <<validation, topcmd, retry, batch>>
    /\ UNCHANGED notLateVars

NextParse == Feed
SpecParse == InitParse /\ [][NextParse]_vars

\* An item the claim counts: recognized kind, non-empty name and uid
ValidItem(item) ==
    /\ item.shape = "dict" /\ item.metadata = "dict"
    /\ item.kind \in ResourceKind /\ item.name # "" /\ item.uid # ""

\* C24: the parser returns exactly one record for each valid item, in order,
\* and nothing for any other item: no entry of the returned list is None,
\* and a blob that is not a JSON object gives the empty list.
C24_OneRecordPerValidItem ==
    parser.fed > 0 /\ parser.blob.content_type = "application/json" =>
        LET valid == SelectSeq(parser.blob.data.items, ValidItem)
        IN  /\ Len(parser.result) = Len(valid)
            /\ \A i \in 1..Len(parser.result) :
                 /\ parser.result[i] # NoneRecord
                 /\ parser.result[i].uid = valid[i].uid
                 /\ parser.result[i].kind = valid[i].kind
                 /\ parser.result[i].name = valid[i].name

-----------------------------------------------------------------------------
(* cli/commands.py: TopCommand.execute (375-454) over BaseCommand._collect_data
   (56-96) *)

\* The collectors of the first gather (line 381) and of the second (386-391),
\* in the order their blobs are parsed.
FirstCollectors == <<"get", "metrics", "kubelet">>
ExtraCollectors ==
    <<"secrets", "ingresses", "persistentvolumeclaims", "persistentvolumes">>
Members(seq) == {seq[i] : i \in 1..Len(seq)}
TopCollectors == Members(FirstCollectors) \cup Members(ExtraCollectors)

\* The blob of KubectlGet's except branch (collectors/base.py:205): {}
EmptyJsonBlob == JsonBlob(Single(EmptyItem))

\* What a collector's task can complete with.  metrics-server and the kubelet
\* scrape answer with empty text here; every get either fails (the empty
\* object) or returns what kubectl printed.  The subject is namespace
\* "default", whose objects the items are.
CollectorOutcomes(c) ==
    CASE c = "get" ->
           {EmptyJsonBlob,
            JsonBlob(Single(Item("Namespace", "dict", "default", "n1")))}
      [] c \in {"metrics", "kubelet"} -> {TextBlob(Malformed)}
      [] c = "secrets" ->
           {EmptyJsonBlob,
            JsonBlob(ListOf(<<Item("Secret", "dict", "tls", "s1")>>)),
            JsonBlob(ListOf(<<Item("Secret", "dict", "tls", "")>>))}
      [] c = "ingresses" ->
           {EmptyJsonBlob,
            JsonBlob(ListOf(<<Item("Ingress", "dict", "web", "i1")>>))}
      [] c = "persistentvolumeclaims" ->
           {EmptyJsonBlob,
            JsonBlob(ListOf(<<Item("PersistentVolumeClaim", "dict", "data",
                                   "c1")>>))}
      [] OTHER ->
           {EmptyJsonBlob,
            JsonBlob(ListOf(<<Item("PersistentVolume", "dict", "pv", "v1")>>))}

\* ParserRegistry.get_parser / parse (parsers/base.py:545-563): text blobs go
\* to the text parsers, which return no record for empty text; every other
\* blob goes to the kubernetes parser.
parse(blob) ==
    IF blob.content_type = "text/plain" THEN <<>> ELSE feed(blob)

\* asyncio.wait(..., return_when=FIRST_COMPLETED) in place of gather
gather_first_completed(started, pending) == pending # started
\* `await asyncio.gather(*tasks, return_exceptions=True)` (commands.py:76,
\* 393) returns once every task it was given has completed.
gather(started, pending) == pending = {}

\* The parse loops (80-90, 394-402): the blobs in collector order
ParseAll(order, blobs) ==
    Flatten([i \in 1..Len(order) |-> parse(blobs[order[i]])])

\* diag's rule applied to top: 2 when anything was found
TopExitCode_diag(capacity_warnings, certificate_warnings) ==
    IF Len(capacity_warnings) + Len(certificate_warnings) > 0 THEN 2 ELSE 0
\* commands.py:438-444: "Exit code 0 even if warnings exist; top is advisory"
TopExitCode(capacity_warnings, certificate_warnings) == 0

\* predict_certificate_expiry (predictor.py:73-96) on the records above: the
\* secrets carry no type, so _check_secret_certificates returns nothing
\* (292-294); every ingress lists one TLS secret and gives one
\* certificate_reference warning (337-352).
predict_certificate_expiry(rs) ==
    SelectSeq(rs, LAMBDA r : r.kind = "Ingress")

\* Lines 405-444 on the collected list.  The comprehension at 405-408 reads
\* r.namespace of every entry: a None entry raises AttributeError, which the
\* handler at 446-454 turns into exit code 2.  The PVC records of a get carry
\* no metrics, so predict_capacity_issues returns no prediction for them
\* (predictor.py:174-177).
TopOutcome(all_resources) ==
    IF \E i \in 1..Len(all_resources) : all_resources[i] = NoneRecord
    THEN [exit_code |-> 2, error |-> TRUE, capacity_warnings |-> <<>>,
          certificate_warnings |-> <<>>]
    ELSE LET namespace_resources ==
                 SelectSeq(all_resources,
                           LAMBDA r : r.namespace = "default"
                                      \/ r.kind \in {"Node", "PersistentVolume"})
             certificate_warnings ==
                 predict_certificate_expiry(namespace_resources)
         IN  [exit_code |-> TopExitCode(<<>>, certificate_warnings),
              error |-> FALSE, capacity_warnings |-> <<>>,
              certificate_warnings |-> certificate_warnings]

NoOutcome == [exit_code |-> -1, error |-> FALSE, capacity_warnings |-> <<>>,
              certificate_warnings |-> <<>>]

InitTop ==
    /\ IdleEarly
    /\ validation = <<>> /\ parser = <<>> /\ retry = <<>> /\ batch = <<>>
    /\ topcmd = [phase |-> "given", started |-> {}, pending |-> {},
                 blobs |-> [c \in TopCollectors |-> TextBlob(Malformed)],
                 parsed |-> {}, all_resources |-> <<>>, result |-> NoOutcome]

TopFrame ==
    /\ UNCHANGED <<validation, parser, retry, batch>>
    /\ UNCHANGED notLateVars

\* execute up to its first await: _collect_data creates the three collectors
\* and their tasks (61-76).
StartTop ==
    /\ topcmd.phase = "given"
    /\ topcmd' = [topcmd EXCEPT !.phase = "first",
                                !.started = Members(FirstCollectors),
                                !.pending = Members(FirstCollectors)]
    /\ TopFrame

\* One collector task completes with its blob.
CollectorCompletes(c) ==
    /\ c \in topcmd.pending
    /\ \E blob \in CollectorOutcomes(c) :
         topcmd' = [topcmd EXCEPT !.pending = @ \ {c}, !.blobs[c] = blob]
    /\ TopFrame

\* The first gather returns: _collect_data parses its blobs (79-90) and
\* returns; execute creates the four targeted gets and awaits them (386-393).
FirstGathered ==
    /\ topcmd.phase = "first"
    /\ gather(topcmd.started, topcmd.pending)
    /\ topcmd' = [topcmd EXCEPT
                    !.phase = "extra",
                    !.parsed = Members(FirstCollectors),
                    !.all_resources = ParseAll(FirstCollectors, topcmd.blobs),
                    !.started = @ \cup Members(ExtraCollectors),
                    !.pending = @ \cup Members(ExtraCollectors)]
    /\ TopFrame

\* The second gather returns: the extra blobs are parsed (394-402) and the
\* rest of execute runs to its CommandResult (405-454).
ExtraGathered ==
    /\ topcmd.phase = "extra"
    /\ gather(Members(ExtraCollectors), topcmd.pending)
    /\ \E rs \in {topcmd.all_resources
                    \o ParseAll(ExtraCollectors, topcmd.blobs)} :
         topcmd' = [topcmd EXCEPT !.phase = "done",
                                  !.parsed = TopCollectors,
                                  !.all_resources = rs,
                                  !.result = TopOutcome(rs)]
    /\ TopFrame

NextTop ==
    \/ StartTop
    \/ \E c \in TopCollectors : CollectorCompletes(c)
    \/ FirstGathered
    \/ ExtraGathered
SpecTop == InitTop /\ [][NextTop]_vars

Completed == topcmd.started \ topcmd.pending
FailedGets ==
    {c \in TopCollectors : c \notin {"metrics", "kubelet"}
                           /\ topcmd.blobs[c] = EmptyJsonBlob}

-----------------------------------------------------------------------------
(* Event targets (engine.py:398-443) *)

\* The records analyze_issues was given
Given == resources \o events

\* The uid of the record the claim names for an event, NoValue when there is
\* none: the record with the involved uid, else the record matching the
\* involved (name, kind, namespace), the namespace defaulting to the event's.
TargetUid(event) ==
    LET inv == event.involvedObject
        ns  == IF inv.namespace = NoValue THEN event.namespace
               ELSE inv.namespace
        byUid  == {i \in Indices(Given) :
                     inv.uid # NoValue /\ Given[i].uid = inv.uid}
        byName == {i \in Indices(Given) :
                     /\ Given[i].name = inv.name /\ Given[i].kind = inv.kind
                     /\ Given[i].namespace = ns}
    IN  IF byUid # {} THEN inv.uid
        ELSE IF byName # {}
             THEN Given[CHOOSE i \in byName : \A j \in byName : i <= j].uid
             ELSE NoValue

EventIssuesFor(uid) ==
    {k \in Indices(issues) : issues[k].origin = "event" /\ issues[k].uid = uid}

-----------------------------------------------------------------------------
(* to_ascii on graphs with cycles (builder.py:307-374)

   add_resources only draws edges from owners to pods and from pods to what
   they use, so the graphs it builds have no cycle.  The graphs below are
   made with the builder's own _add_vertex and _add_edge: a chain of five
   vertices, longer than max_depth, with edges back into it. *)

TreeUids == <<"u-a", "u-b", "u-c", "u-d", "u-e">>

\* the edges that may be added, in the order they are added
TreeEdges ==
    << <<"u-a", "u-b">>, <<"u-b", "u-c">>, <<"u-c", "u-d">>,
       <<"u-d", "u-e">>, <<"u-c", "u-a">>, <<"u-b", "u-b">>,
       <<"u-a", "u-c">>, <<"u-b", "u-a">> >>

EdgeIndex(e) == CHOOSE k \in Indices(TreeEdges) :
                    TreeEdges[k] = <<e[1], e[2]>>

InitTree ==
    /\ IdleScore /\ IdleIssue /\ IdleColl /\ IdleRes /\ IdleFc /\ IdleLate
    /\ gb = FirstPass(GraphBuilder,
                      [k \in Indices(TreeUids) |->
                          GraphRecord(TreeUids[k], "Pod", TreeUids[k],
                                      "default", "Running")])
            @@ [input |-> <<>>, built |-> TRUE]
    /\ tree = NoTree

\* self._add_edge(source_uid, target_uid, edge_type) for the next edges of
\* the list
AddTreeEdge ==
    /\ tree = NoTree
    /\ \E k \in Indices(TreeEdges) :
         /\ \A e \in Indices(gb.edges) : EdgeIndex(gb.edges[e]) < k
         /\ \E b \in {_add_edge([vertices |-> gb.vertices,
                                 resources |-> gb.resources,
                                 edges |-> gb.edges],
                                TreeEdges[k][1], TreeEdges[k][2], "owns")} :
              gb' = [gb EXCEPT !.edges = b.edges]
    /\ UNCHANGED <<tree, notGraphVars>>

\* to_ascii(root_uid, direction) on the graph as it stands
RenderTree ==
    /\ tree = NoTree
    /\ \E r \in Members(TreeUids), d \in Directions :
           tree' = [root |-> r, direction |-> d,
                    lines |-> to_ascii(gb, r, d)]
    /\ UNCHANGED <<gb, notGraphVars>>

NextTree == AddTreeEdge \/ RenderTree
SpecTree == InitTree /\ [][NextTree]_vars

\* the line of the vertex under which line k is printed
ParentLine(lines, k) ==
    CHOOSE j \in 1..(k - 1) :
        /\ lines[j].type = "node" /\ lines[j].depth = lines[k].depth - 1
        /\ \A i \in (j + 1)..(k - 1) :
               ~(lines[i].type = "node" /\ lines[i].depth = lines[k].depth - 1)

RECURSIVE PathTo(_, _)
\* the vertices on the path from the root to the parent of line k
PathTo(lines, k) ==
    IF lines[k].depth = 0 THEN {}
    ELSE LET p == ParentLine(lines, k)
         IN  {lines[p].uid} \cup PathTo(lines, p)

\* C27: to_ascii returns on every graph, cyclic ones included; no vertex line
\* lies deeper than max_depth; a vertex printed while it is already on the
\* path from the root is not expanded again and gets exactly one cycle marker
\* under it; and a cycle marker appears nowhere else.
C27_CyclesMarkedOnce ==
    tree # NoTree =>
        /\ tree.lines # <<>>
        /\ \A k \in Indices(tree.lines) :
             LET l == tree.lines[k]
                 marked == /\ k < Len(tree.lines)
                           /\ tree.lines[k + 1].type = "cycle"
             IN  /\ l.type = "node" => l.depth <= max_depth
                 /\ (l.type = "node" /\ l.uid \in PathTo(tree.lines, k)) =>
                        /\ marked
                        /\ tree.lines[k + 1].depth = l.depth + 1
                        /\ k + 2 <= Len(tree.lines) =>
                               tree.lines[k + 2].depth <= l.depth
                 /\ (l.type = "node" /\ l.uid \notin PathTo(tree.lines, k)) =>
                        ~marked
                 /\ l.type = "cycle" => k > 1 /\ tree.lines[k - 1].type = "node"

\* Witness of C27: one rendering holds a return to the root at max_depth (the
\* three-vertex cycle), a self-loop, and a vertex at max_depth whose
\* neighbours are cut off.
C27_Witness ==
    /\ tree # NoTree /\ tree.root = "u-a" /\ tree.direction = "downstream"
    /\ \E k \in Indices(tree.lines) :
           /\ tree.lines[k] = NodeLine("u-a", max_depth)
           /\ tree.lines[k + 1] = CycleLine(max_depth + 1)
    /\ \E k \in Indices(tree.lines) :
           /\ tree.lines[k] = NodeLine("u-b", 2)
           /\ tree.lines[k + 1] = CycleLine(3)
    /\ \E k \in Indices(tree.lines) : tree.lines[k] = NodeLine("u-d", max_depth)

-----------------------------------------------------------------------------
(* Failures recorded while the breaker is Open (resilience.py:60-69, 80-87) *)

\* C29: a failure recorded while the breaker is Open leaves it Open with
\* both counters as they were and sets the time of the last failure to the
\* moment of the record; an Open breaker lets a call proceed exactly when
\* timeout_seconds have passed since that time, whenever it was opened.
C29_FailureWhileOpenRestartsWait ==
    /\ (obs.op = "record_failure" /\ obs.before.state = OPEN) =>
           /\ cb.state = OPEN
           /\ cb.failure_count = obs.before.failure_count
           /\ cb.success_count = obs.before.success_count
           /\ cb.last_state_change = obs.before.last_state_change
           /\ cb.last_failure_time = obs.at
    /\ (obs.op = "can_proceed" /\ obs.before.state = OPEN) =>
           (obs.result <=>
                obs.at - obs.before.last_failure_time >= timeout_ticks)

\* Witness of C29: the breaker has been Open for the whole timeout, a failure
\* was recorded after it opened, and can_proceed has just refused.
C29_Witness ==
    /\ obs.op = "can_proceed" /\ obs.before.state = OPEN /\ ~obs.result
    /\ cb.state = OPEN
    /\ obs.at - cb.last_state_change >= timeout_ticks
    /\ cb.last_failure_time > cb.last_state_change

-----------------------------------------------------------------------------
(* resilience.py: RetryStrategy (177-248).  Delays are counted in half
   seconds. *)

base_delay_halves == 1       \* base_delay = 0.5
max_delay_halves  == 20      \* max_delay = 10.0
exponential_base  == 2       \* exponential_base = 2.0

\* a delay that grows by base_delay with every attempt
get_delay_linear(attempt) ==
    Min(base_delay_halves * (attempt + 1), max_delay_halves)
\* get_delay (192-202)
get_delay(attempt) ==
    Min(base_delay_halves * (exponential_base ^ attempt), max_delay_halves)

\* What one invocation of func does: it returns a value, raises an Exception,
\* or raises CancelledError, which is not an Exception and passes the handler
\* at line 228.
FuncValues == {"v1", "v2"}
FuncErrors == {"TimeoutError", "KubectlError", "ValueError"}
Cancelled  == "CancelledError"

InitRetry ==
    /\ IdleEarly
    /\ validation = <<>> /\ parser = <<>> /\ topcmd = <<>> /\ batch = <<>>
    /\ retry = [pc |-> "calling", attempt |-> 0, invoked |-> 0,
                errors |-> <<>>, sleeps |-> <<>>, last_exception |-> NoValue,
                result |-> NoValue, raised |-> NoValue]

RetryFrame ==
    /\ UNCHANGED <<validation, parser, topcmd, batch>>
    /\ UNCHANGED notLateVars

\* line 227: func returns; execute returns its value
FuncReturns ==
    /\ retry.pc = "calling"
    /\ \E v \in FuncValues :
         retry' = [retry EXCEPT !.pc = "returned", !.invoked = @ + 1,
                                !.result = v]
    /\ RetryFrame

\* lines 228-248: func raises an Exception; execute sleeps get_delay(attempt)
\* when attempts remain, and otherwise leaves the loop and raises
\* last_exception.
FuncRaises ==
    /\ retry.pc = "calling"
    /\ \E e \in FuncErrors :
         retry' = IF retry.attempt < max_retries
                  THEN [retry EXCEPT !.pc = "sleeping", !.invoked = @ + 1,
                                     !.errors = Append(@, e),
                                     !.last_exception = e,
                                     !.sleeps = Append(@, get_delay(retry.attempt))]
                  ELSE [retry EXCEPT !.pc = "raised", !.invoked = @ + 1,
                                     !.errors = Append(@, e),
                                     !.last_exception = e, !.raised = e]
    /\ RetryFrame

\* the awaited call is cancelled: the error leaves execute at once
FuncCancelled ==
    /\ retry.pc = "calling"
    /\ retry' = [retry EXCEPT !.pc = "raised", !.invoked = @ + 1,
                              !.errors = Append(@, Cancelled),
                              !.raised = Cancelled]
    /\ RetryFrame

\* line 240 returns: the next pass of the loop
SleepEnds ==
    /\ retry.pc = "sleeping"
    /\ retry' = [retry EXCEPT !.pc = "calling", !.attempt = @ + 1]
    /\ RetryFrame

NextRetry == FuncReturns \/ FuncRaises \/ FuncCancelled \/ SleepEnds
SpecRetry == InitRetry /\ [][NextRetry]_vars

\* C28: with the defaults func is invoked at most 4 times; the wait before
\* retry k is min(0.5 * 2^k, 10) seconds, that is 0.5 s, 1 s and 2 s; the
\* value of the first invocation that succeeds is returned and nothing is
\* invoked after it; when every invocation fails the error of the last one
\* is raised.
C28_RetryBackoff ==
    /\ retry.invoked <= 4
    /\ \A k \in 1..Len(retry.sleeps) :
           retry.sleeps[k] = <<1, 2, 4>>[k]
    /\ retry.pc = "sleeping" => Len(retry.sleeps) = retry.invoked
    /\ retry.pc = "calling" => Len(retry.sleeps) = retry.invoked
    /\ retry.pc = "returned" =>
           /\ retry.result \in FuncValues
           /\ Len(retry.errors) = retry.invoked - 1
           /\ Len(retry.sleeps) = retry.invoked - 1
    /\ retry.pc = "raised" =>
           /\ retry.raised = retry.errors[retry.invoked]
           /\ retry.raised # Cancelled =>
                  /\ retry.invoked = 4
                  /\ retry.sleeps = <<1, 2, 4>>

\* Witnesses of C28: all four invocations failed with different errors and
\* the last one was raised.
C28_Witness ==
    /\ retry.pc = "raised" /\ retry.invoked = 4
    /\ retry.errors[1] # retry.errors[4]
    /\ retry.raised = retry.errors[4]
    /\ retry.sleeps = <<1, 2, 4>>

-----------------------------------------------------------------------------
(* batch.py: BatchAnalyzer.diagnose_all_pods (43-105) and _diagnose_pod
   (167-195) *)

max_concurrent_default == 10     \* BatchAnalyzer(max_concurrent=10)
MaxPods == 4                     \* pods listed by _get_pods

\* the limits a BatchAnalyzer is constructed with, the default among them
ConcurrencyLimits == {1, 2, max_concurrent_default}
PodNames == {"web", "db"}

\* leaving `async with self.semaphore` with two permits given back
semaphore_release_twice(value) == value + 2
\* leaving `async with self.semaphore` (line 183): Semaphore.release
semaphore_release(value) == value + 1

\* What diagnose_all_pods returns
BatchResult(total, successful, failed) ==
    [total_resources |-> total, successful |-> successful, failed |-> failed]
NoBatchResult == BatchResult(-1, -1, -1)

\* _get_pods has returned its list (an empty one when kubectl failed); the
\* analyzer's semaphore holds max_concurrent permits.  A task is "created"
\* until it enters the semaphore, then "running", then done with a result or
\* with an exception; `diagnosed` counts its calls of DiagCommand.execute.
InitBatch ==
    /\ IdleEarly
    /\ validation = <<>> /\ parser = <<>> /\ topcmd = <<>> /\ retry = <<>>
    /\ \E pods \in SeqsUpTo(PodNames, MaxPods), m \in ConcurrencyLimits :
         batch = [phase |-> "listed", pods |-> pods, max_concurrent |-> m,
                  semaphore |-> m,
                  tasks |-> [i \in Indices(pods) |-> "none"],
                  diagnosed |-> [i \in Indices(pods) |-> 0],
                  result |-> NoBatchResult]

BatchFrame ==
    /\ UNCHANGED <<validation, parser, topcmd, retry>>
    /\ UNCHANGED notLateVars

\* lines 65-81: no pod gives the empty result at once; otherwise one task per
\* listed pod is handed to gather.
StartDiagnoses ==
    /\ batch.phase = "listed"
    /\ batch' = IF batch.pods = <<>>
                THEN [batch EXCEPT !.phase = "returned",
                                   !.result = BatchResult(0, 0, 0)]
                ELSE [batch EXCEPT !.phase = "gathering",
                                   !.tasks = [i \in Indices(batch.pods) |->
                                                 "created"]]
    /\ BatchFrame

\* line 183: a task enters the semaphore when a permit is free, and calls
\* DiagCommand.execute (184-193).
EnterSemaphore(i) ==
    /\ batch.phase = "gathering"
    /\ batch.tasks[i] = "created"
    /\ batch.semaphore > 0
    /\ batch' = [batch EXCEPT !.semaphore = @ - 1, !.tasks[i] = "running",
                              !.diagnosed[i] = @ + 1]
    /\ BatchFrame

\* lines 193-195: the diagnosis returns its result or raises; either way the
\* task leaves the semaphore.
DiagnosisEnds(i) ==
    /\ batch.phase = "gathering"
    /\ batch.tasks[i] = "running"
    /\ \E outcome \in {"result", "exception"} :
         batch' = [batch EXCEPT
                     !.semaphore = semaphore_release(@),
                     !.tasks[i] = outcome]
    /\ BatchFrame

\* lines 81-105: gather returns when every task is done; the results are
\* counted.
Aggregate ==
    /\ batch.phase = "gathering"
    /\ \A i \in Indices(batch.pods) :
         batch.tasks[i] \in {"result", "exception"}
    /\ LET successful == {i \in Indices(batch.pods) :
                            batch.tasks[i] = "result"}
           errors     == {i \in Indices(batch.pods) :
                            batch.tasks[i] = "exception"}
       IN  batch' = [batch EXCEPT
                       !.phase = "returned",
                       !.result = BatchResult(Len(batch.pods),
                                              Cardinality(successful),
                                              Cardinality(errors))]
    /\ BatchFrame

NextBatch ==
    \/ StartDiagnoses
    \/ \E i \in Indices(batch.pods) : EnterSemaphore(i)
    \/ \E i \in Indices(batch.pods) : DiagnosisEnds(i)
    \/ Aggregate

\* The event loop runs every task that can run, and every diagnosis ends
\* (the collectors of DiagCommand are bounded by their timeouts).
SpecBatch == InitBatch /\ [][NextBatch]_vars /\ WF_vars(NextBatch)

Executing == {i \in Indices(batch.pods) : batch.tasks[i] = "running"}

BatchSafe ==
    /\ Cardinality(Executing) <= batch.max_concurrent
    /\ Cardinality(Executing) + batch.semaphore = batch.max_concurrent
    /\ \A i \in Indices(batch.pods) : batch.diagnosed[i] <= 1
    /\ batch.phase = "returned" =>
         /\ \A i \in Indices(batch.pods) : batch.diagnosed[i] = 1
         /\ batch.result.total_resources = Len(batch.pods)
         /\ batch.result.successful + batch.result.failed
              = batch.result.total_resources

\* C30: never more than max_concurrent diagnoses are executing, every listed
\* pod is diagnosed exactly once, every run of diagnose_all_pods returns, and
\* in its result successful + failed = total_resources.
C30_BoundedBatch ==
    /\ []BatchSafe
    /\ <>(batch.phase = "returned")

\* Witness of C30: a full semaphore with a task still waiting for it
C30_Witness ==
    /\ batch.phase = "gathering"
    /\ batch.max_concurrent = 2 /\ Cardinality(Executing) = 2
    /\ batch.semaphore = 0
    /\ \E i \in Indices(batch.pods) : batch.tasks[i] = "created"
    /\ \E i \in Indices(batch.pods) : batch.tasks[i] = "exception"

=============================================================================
